---------------------------- MODULE Spec2Model ----------------------------
(***************************************************************************)
(* Model of the food-portfolio REST API: the request handlers (portfolio,  *)
(* contact, chatbot controllers), the entity repositories (DishModel,      *)
(* ContactModel), the data access helper (dbHelpers) over the hosted       *)
(* store, and the AI gateway (GeminiService).                              *)
(*                                                                         *)
(* One action is one whole request: the handler runs from its first line   *)
(* to the response it sends.  The response, the backend calls the handler  *)
(* issued and the store as it was before the request are kept in the       *)
(* state so that properties of a request can be stated as invariants.      *)
(***************************************************************************)
EXTENDS Integers, Sequences, FiniteSets, TLC

VARIABLES
    store,      \* the hosted database: table name -> sequence of rows
    seq,        \* table name -> number of identifiers the store has generated
    env,        \* process.env.GEMINI_API_KEY as the process found it at start
    nodeEnv,    \* process.env.NODE_ENV as the process found it at start ("unset" when it has none)
    clock,      \* the time new Date() and the store's NOW() read
    genAI,      \* GeminiService.genAI: "null" or "client", set by the constructor
    resp,       \* the response sent for the last request (with the request and its backend calls)
    pre,        \* the store as it was when the last request arrived
    prev,       \* summary of the request handled before the last one
    inflight    \* a getStats suspended at its await: the reads pending and those answered

vars == <<store, seq, env, nodeEnv, clock, genAI, resp, pre, prev, inflight>>

---------------------------------------------------------------------------
(* Bounds *)

MaxDishes == 2      \* dish rows the store ever generates an id for
MaxContacts == 2    \* contact rows the store ever generates an id for
MaxClock == 2       \* readings the clock advances through

---------------------------------------------------------------------------
(* JavaScript values: tagged tuples, the tag first *)

Undef == <<"undefined">>
Null == <<"null">>
NaN == <<"NaN">>
Bool(b) == <<"boolean", b>>
Num(n) == <<"number", n>>
Str(s) == <<"string", s>>       \* s is a sequence of one-character strings
Arr(a) == <<"array", a>>
Time(t) == <<"time", t>>        \* an ISO timestamp: the clock reading t

IsStr(v) == v[1] = "string"
IsNum(v) == v[1] = "number"
IsBool(v) == v[1] = "boolean"
IsArr(v) == v[1] = "array"
IsTime(v) == v[1] = "time"

\* JavaScript truthiness (ToBoolean)
Truthy(v) == v \notin {Undef, Null, NaN, Bool(FALSE), Num(0), Str(<<>>)}

\* a || b
Or(a, b) == IF Truthy(a) THEN a ELSE b

Min(a, b) == IF a < b THEN a ELSE b
Max(a, b) == IF a > b THEN a ELSE b

Whitespace == {" ", "\t"}
Digits == {"0", "1", "2", "3", "4", "5", "6", "7", "8", "9"}
DigitVal(c) ==
    CASE c = "0" -> 0 [] c = "1" -> 1 [] c = "2" -> 2 [] c = "3" -> 3 [] c = "4" -> 4
      [] c = "5" -> 5 [] c = "6" -> 6 [] c = "7" -> 7 [] c = "8" -> 8 [] c = "9" -> 9

Lower(c) == CASE c = "A" -> "a" [] c = "B" -> "b" [] c = "C" -> "c" [] c = "Z" -> "z" [] OTHER -> c

RECURSIVE TrimStart(_)
TrimStart(s) == IF s # <<>> /\ Head(s) \in Whitespace THEN TrimStart(Tail(s)) ELSE s
RECURSIVE TrimEnd(_)
TrimEnd(s) == IF s # <<>> /\ s[Len(s)] \in Whitespace THEN TrimEnd(SubSeq(s, 1, Len(s) - 1)) ELSE s
\* String.prototype.trim
Trim(s) == TrimEnd(TrimStart(s))


\* case-insensitive containment: the store's ilike '%t%' over characters
Contains(s, t) ==
    \E i \in 0..(Len(s) - Len(t)) : \A j \in 1..Len(t) : Lower(s[i + j]) = Lower(t[j])

---------------------------------------------------------------------------
(* The hosted store (schema.sql) and the data access helper (supabase.js) *)

DishTable == "dishes"
ContactTable == "contact_messages"

DishCategoryEnum == {"appetizers", "mains", "desserts", "drinks", "specials"}
\* a status enum with a fifth label
ContactStatusEnum_WithBogus == {"new", "in_progress", "completed", "archived", "bogus"}

ContactStatusEnum == {"new", "in_progress", "completed", "archived"}

DigitChar(n) == CASE n = 0 -> "0" [] n = 1 -> "1" [] n = 2 -> "2" [] n = 3 -> "3"
                  [] n = 4 -> "4" [] n = 5 -> "5" [] OTHER -> "9"

\* the n-th identifier the store generates (uuid_generate_v4: never reused)
Uuid(n) == Str(<<"uuid", DigitChar(n)>>)
IsUuid(v) == IsStr(v) /\ Len(v[2]) = 2 /\ v[2][1] = "uuid"

OneOf(enum) == {Str(<<c>>) : c \in enum}

\* the tables with the dish category declared as text, not as the enum
ColumnValid_CategoryAsText(table, col, v) ==
    IF table = DishTable
    THEN CASE col = "id" -> IsUuid(v)
           [] col = "title" -> IsStr(v)
           [] col = "category" -> IsStr(v)
           [] col \in {"description", "image_url"} -> IsStr(v) \/ v = Null
           [] col = "price" -> IsNum(v) \/ v = Null
           [] col = "ingredients" -> IsArr(v) \/ v = Null
           [] col \in {"is_featured", "is_available"} -> IsBool(v) \/ v = Null
           [] col \in {"created_at", "updated_at"} -> IsTime(v) \/ v = Null
           [] OTHER -> FALSE
    ELSE CASE col = "id" -> IsUuid(v)
           [] col \in {"name", "email", "message"} -> IsStr(v)
           [] col \in {"phone", "event_type", "preferred_date"} -> IsStr(v) \/ v = Null
           [] col = "guests" -> IsNum(v) \/ v = Null
           [] col = "status" -> v \in OneOf(ContactStatusEnum) \/ v = Null
           [] col \in {"created_at", "updated_at"} -> IsTime(v) \/ v = Null
           [] OTHER -> FALSE

\* the column types and NOT NULL constraints of the two tables
ColumnValid(table, col, v) ==
    IF table = DishTable
    THEN CASE col = "id" -> IsUuid(v)
           [] col = "title" -> IsStr(v)
           [] col = "category" -> v \in OneOf(DishCategoryEnum)
           [] col \in {"description", "image_url"} -> IsStr(v) \/ v = Null
           [] col = "price" -> IsNum(v) \/ v = Null
           [] col = "ingredients" -> IsArr(v) \/ v = Null
           [] col \in {"is_featured", "is_available"} -> IsBool(v) \/ v = Null
           [] col \in {"created_at", "updated_at"} -> IsTime(v) \/ v = Null
           [] OTHER -> FALSE
    ELSE CASE col = "id" -> IsUuid(v)
           [] col \in {"name", "email", "message"} -> IsStr(v)
           [] col \in {"phone", "event_type", "preferred_date"} -> IsStr(v) \/ v = Null
           [] col = "guests" -> IsNum(v) \/ v = Null
           [] col = "status" -> v \in OneOf(ContactStatusEnum) \/ v = Null
           [] col \in {"created_at", "updated_at"} -> IsTime(v) \/ v = Null
           [] OTHER -> FALSE

\* the fields of a record that JSON carries to the store (undefined is dropped)
Sent(rec) == {c \in DOMAIN rec : rec[c] # Undef}

RecordValid(table, rec) == \A c \in Sent(rec) : ColumnValid(table, c, rec[c])

StoreError(msg) == <<"error", msg>>
ErrorMessage(e) == e[2]

\* a backend call a handler issued, and whether the backend answered without error
Call(fn, table, arg, ok) == [fn |-> fn, table |-> table, arg |-> arg, ok |-> ok]

\* a filter applies when its value is neither undefined nor null
Matches(row, filters) ==
    \A k \in DOMAIN filters :
        filters[k] \notin {Undef, Null} => row[k] = filters[k]

FiltersValid(table, filters) ==
    \A k \in DOMAIN filters :
        filters[k] \notin {Undef, Null} => ColumnValid(table, k, filters[k])

SelectRows(rows, Test(_)) == SelectSeq(rows, Test)

MapRows(rows, F(_)) ==
    LET f[i \in 0..Len(rows)] == IF i = 0 THEN <<>> ELSE Append(f[i - 1], F(rows[i]))
    IN  f[Len(rows)]

\* a select that answers an empty list, not null, beside its error
DbSelect_EmptyOnError(st, table, filters, fail) ==
    IF fail \/ ~FiltersValid(table, filters)
    THEN [data |-> Arr(<<>>), error |-> StoreError("select failed"),
          calls |-> <<Call("select", table, filters, FALSE)>>]
    ELSE [data |-> Arr(SelectRows(st[table], LAMBDA r : Matches(r, filters))),
          error |-> Null,
          calls |-> <<Call("select", table, filters, TRUE)>>]

\* dbHelpers.select: {data, error}; fail is the store or the network failing
DbSelect(st, table, filters, fail) ==
    IF fail \/ ~FiltersValid(table, filters)
    THEN [data |-> Null, error |-> StoreError("select failed"),
          calls |-> <<Call("select", table, filters, FALSE)>>]
    ELSE [data |-> Arr(SelectRows(st[table], LAMBDA r : Matches(r, filters))),
          error |-> Null,
          calls |-> <<Call("select", table, filters, TRUE)>>]

\* How a write can go wrong between the helper and the store: "refused" is the
\* store or the network failing before the write is applied, "lost" is the write
\* applied and the store's answer not reaching the helper (the connection drops,
\* the call times out).  Either way the client hands the helper an error.
WriteFaults == {"none", "refused", "lost"}

\* What the store client does with a call of a helper: it answers data, answers
\* an error, throws, or (a write) applies the call and throws for want of the
\* store's answer.
ClientOutcomes == {"data", "error", "throws", "lost"}

\* a helper whose catch is missing: only the error the client answers is handled
Caught_AnsweredOnly(outcome) == outcome = "error"

\* try { ... if (error) throw error; return {data, error: null} }
\* catch (error) { return {data: null, error} }: the error the client answers is
\* thrown inside the try, so it and every exception of the client end in the catch
Caught(outcome) == outcome # "data"

\* the helper lets an exception out to its caller
Escapes(outcome) == outcome \in {"throws", "lost"} /\ ~Caught(outcome)

\* the fault a helper's read or write meets under a client outcome
ReadFault(outcome) == Caught(outcome)
WriteFault(outcome) ==
    IF ~Caught(outcome) THEN "none" ELSE IF outcome = "lost" THEN "lost" ELSE "refused"

\* dbHelpers.insert: the store adds the generated id and answers the new row
DbInsert(st, table, rec, newId, fail) ==
    LET row == [c \in Sent(rec) \cup {"id"} |-> IF c = "id" THEN newId ELSE rec[c]]
    IN  IF fail = "refused" \/ ~RecordValid(table, rec)
        THEN [data |-> Null, error |-> StoreError("insert failed"), store |-> st,
              inserted |-> FALSE, calls |-> <<Call("insert", table, rec, FALSE)>>]
        ELSE IF fail = "lost"
        THEN [data |-> Null, error |-> StoreError("fetch failed"),
              store |-> [st EXCEPT ![table] = Append(@, row)],
              inserted |-> TRUE, calls |-> <<Call("insert", table, rec, FALSE)>>]
        ELSE [data |-> Arr(<<row>>), error |-> Null,
              store |-> [st EXCEPT ![table] = Append(@, row)],
              inserted |-> TRUE, calls |-> <<Call("insert", table, rec, TRUE)>>]

\* one row after a partial column update
Merge(row, data) == [c \in DOMAIN row |-> IF c \in Sent(data) THEN data[c] ELSE row[c]]

\* the trigger update_updated_at_column: BEFORE UPDATE, NEW.updated_at = NOW()
Touch(row, now) == [row EXCEPT !.updated_at = Time(now)]

\* an update that lost its id filter: every row of the table is updated
DbUpdate_NoIdFilter(st, table, id, data, fail, now) ==
    LET upd(r) == Touch(Merge(r, data), now)
        rows == MapRows(st[table], upd)
    IN  IF fail = "refused" \/ ~IsUuid(id) \/ (st[table] # <<>> /\ ~RecordValid(table, data))
        THEN [data |-> Null, error |-> StoreError("update failed"), store |-> st,
              calls |-> <<Call("update", table, [id |-> id, data |-> data], FALSE)>>]
        ELSE IF fail = "lost"
        THEN [data |-> Null, error |-> StoreError("fetch failed"),
              store |-> [st EXCEPT ![table] = rows],
              calls |-> <<Call("update", table, [id |-> id, data |-> data], FALSE)>>]
        ELSE [data |-> Arr(rows), error |-> Null,
              store |-> [st EXCEPT ![table] = rows],
              calls |-> <<Call("update", table, [id |-> id, data |-> data], TRUE)>>]

\* dbHelpers.update: rows with the id are updated and answered as they are after
\* the update; none matching answers an empty list.  The store checks the new
\* values of the rows it updates, the id it is asked for, and that the primary
\* key stays unique when the data carry an id.
DbUpdate(st, table, id, data, fail, now) ==
    LET hit(r) == r.id = id
        matched == SelectRows(st[table], hit)
        upd(r) == IF hit(r) THEN Touch(Merge(r, data), now) ELSE r
        rows == MapRows(st[table], upd)
        unique == \A i, j \in 1..Len(rows) : rows[i].id = rows[j].id => i = j
        bad == ~IsUuid(id) \/ (matched # <<>> /\ (~RecordValid(table, data) \/ ~unique))
    IN  IF fail = "refused" \/ bad
        THEN [data |-> Null, error |-> StoreError("update failed"), store |-> st,
              calls |-> <<Call("update", table, [id |-> id, data |-> data], FALSE)>>]
        ELSE IF fail = "lost"
        THEN [data |-> Null, error |-> StoreError("fetch failed"),
              store |-> [st EXCEPT ![table] = rows],
              calls |-> <<Call("update", table, [id |-> id, data |-> data], FALSE)>>]
        ELSE [data |-> Arr(MapRows(matched, upd)), error |-> Null,
              store |-> [st EXCEPT ![table] = rows],
              calls |-> <<Call("update", table, [id |-> id, data |-> data], TRUE)>>]

\* dbHelpers.delete: {error}; deleting an absent id is no error
DbDelete(st, table, id, fail) ==
    IF fail = "refused" \/ ~IsUuid(id)
    THEN [error |-> StoreError("delete failed"), store |-> st,
          calls |-> <<Call("delete", table, id, FALSE)>>]
    ELSE IF fail = "lost"
    THEN [error |-> StoreError("fetch failed"),
          store |-> [st EXCEPT ![table] = SelectRows(@, LAMBDA r : r.id # id)],
          calls |-> <<Call("delete", table, id, FALSE)>>]
    ELSE [error |-> Null,
          store |-> [st EXCEPT ![table] = SelectRows(@, LAMBDA r : r.id # id)],
          calls |-> <<Call("delete", table, id, TRUE)>>]

---------------------------------------------------------------------------
(* DishModel (models/Dish.js) *)

\* DishModel.getAll
DishGetAll(st, category, fail) ==
    DbSelect(st, DishTable,
             IF Truthy(category) THEN [category |-> category] ELSE <<>>, fail)

\* a getById that takes the first row of the table, whatever the id
DishGetById_FirstOfAll(st, id, fail) ==
    LET result == DbSelect(st, DishTable, <<>>, fail)
    IN  [data |-> IF Truthy(result.data)
                  THEN (IF result.data[2] # <<>> THEN result.data[2][1] ELSE Undef)
                  ELSE Null,
         error |-> result.error,
         calls |-> result.calls]

\* DishModel.getById: the first row of the select, or null
DishGetById(st, id, fail) ==
    LET result == DbSelect(st, DishTable, [id |-> id], fail)
    IN  [data |-> IF Truthy(result.data)
                  THEN (IF result.data[2] # <<>> THEN result.data[2][1] ELSE Undef)
                  ELSE Null,
         error |-> result.error,
         calls |-> result.calls]

\* DishRecord with is_available taken by truthiness (dishData.is_available || false)
DishRecord_AvailableByTruthiness(dishData, now) ==
    [title |-> dishData.title,
     description |-> dishData.description,
     category |-> dishData.category,
     image_url |-> Or(dishData.image_url, Null),
     price |-> Or(dishData.price, Null),
     ingredients |-> Or(dishData.ingredients, Arr(<<>>)),
     is_featured |-> Or(dishData.is_featured, Bool(FALSE)),
     is_available |-> Bool(Truthy(dishData.is_available)),
     created_at |-> Time(now),
     updated_at |-> Time(now)]

\* the record DishModel.create hands to dbHelpers.insert
DishRecord(dishData, now) ==
    [title |-> dishData.title,
     description |-> dishData.description,
     category |-> dishData.category,
     image_url |-> Or(dishData.image_url, Null),
     price |-> Or(dishData.price, Null),
     ingredients |-> Or(dishData.ingredients, Arr(<<>>)),
     is_featured |-> Or(dishData.is_featured, Bool(FALSE)),
     is_available |-> Bool(dishData.is_available # Bool(FALSE)),
     created_at |-> Time(now),
     updated_at |-> Time(now)]

\* DishModel.create
DishCreate(st, dishData, newId, fail, now) ==
    DbInsert(st, DishTable, DishRecord(dishData, now), newId, fail)

\* {...dishData, updated_at: new Date().toISOString()}
UpdateData(dishData, now) ==
    [c \in DOMAIN dishData \cup {"updated_at"} |->
        IF c = "updated_at" THEN Time(now) ELSE dishData[c]]

\* DishModel.update: the body's fields are passed straight to the store
DishUpdate(st, id, dishData, fail, now) ==
    DbUpdate(st, DishTable, id, UpdateData(dishData, now), fail, now)

\* DishModel.delete
DishDelete(st, id, fail) == DbDelete(st, DishTable, id, fail)

\* DishModel.getByCategory
DishGetByCategory(st, category, fail) ==
    DbSelect(st, DishTable, [category |-> category], fail)

\* getFeatured filtering on the wrong column
DishGetFeatured_WrongColumn(st, fail) ==
    DbSelect(st, DishTable, [is_available |-> Bool(TRUE)], fail)

\* DishModel.getFeatured
DishGetFeatured(st, fail) == DbSelect(st, DishTable, [is_featured |-> Bool(TRUE)], fail)

\* DishModel.getAvailable
DishGetAvailable(st, fail) == DbSelect(st, DishTable, [is_available |-> Bool(TRUE)], fail)

ILike(v, term) == IsStr(v) /\ Contains(v[2], term[2])

\* DishModel.search: title or description ilike %term%
DishSearch(st, searchTerm, fail) ==
    IF fail
    THEN [data |-> Null, error |-> StoreError("search failed"),
          calls |-> <<Call("search", DishTable, searchTerm, FALSE)>>]
    ELSE [data |-> Arr(SelectRows(st[DishTable],
                        LAMBDA r : ILike(r.title, searchTerm) \/ ILike(r.description, searchTerm))),
          error |-> Null,
          calls |-> <<Call("search", DishTable, searchTerm, TRUE)>>]

---------------------------------------------------------------------------
(* PortfolioController (controllers/portfolioController.js) *)

\* what a handler leaves behind: the response and the store
Reply(status, body, calls, st) ==
    [status |-> status, body |-> body, calls |-> calls, store |-> st]

ArrLen(a) == Len(a[2])

\* getAllDishes testing featured before search
GetAllDishesH_FeaturedFirst(st, query, fail) ==
    LET result ==
            IF query.featured = Str(<<"true">>) THEN DishGetFeatured(st, fail)
            ELSE IF Truthy(query.search) THEN DishSearch(st, query.search, fail)
            ELSE IF query.available = Str(<<"true">>) THEN DishGetAvailable(st, fail)
            ELSE IF Truthy(query.category) THEN DishGetByCategory(st, query.category, fail)
            ELSE DishGetAll(st, Null, fail)
    IN  IF Truthy(result.error)
        THEN Reply(500, [success |-> FALSE, message |-> "Error fetching dishes",
                         error |-> ErrorMessage(result.error)], result.calls, st)
        ELSE Reply(200, [success |-> TRUE,
                         data |-> Or(result.data, Arr(<<>>)),
                         count |-> IF Truthy(result.data) THEN ArrLen(result.data) ELSE 0],
                   result.calls, st)

\* getAllDishes
GetAllDishesH(st, query, fail) ==
    LET result ==
            IF Truthy(query.search) THEN DishSearch(st, query.search, fail)
            ELSE IF query.featured = Str(<<"true">>) THEN DishGetFeatured(st, fail)
            ELSE IF query.available = Str(<<"true">>) THEN DishGetAvailable(st, fail)
            ELSE IF Truthy(query.category) THEN DishGetByCategory(st, query.category, fail)
            ELSE DishGetAll(st, Null, fail)
    IN  IF Truthy(result.error)
        THEN Reply(500, [success |-> FALSE, message |-> "Error fetching dishes",
                         error |-> ErrorMessage(result.error)], result.calls, st)
        ELSE Reply(200, [success |-> TRUE,
                         data |-> Or(result.data, Arr(<<>>)),
                         count |-> IF Truthy(result.data) THEN ArrLen(result.data) ELSE 0],
                   result.calls, st)

\* getDishById
GetDishByIdH(st, id, fail) ==
    LET result == DishGetById(st, id, fail)
    IN  IF Truthy(result.error)
        THEN Reply(500, [success |-> FALSE, message |-> "Error fetching dish",
                         error |-> ErrorMessage(result.error)], result.calls, st)
        ELSE IF ~Truthy(result.data)
        THEN Reply(404, [success |-> FALSE, message |-> "Dish not found"], result.calls, st)
        ELSE Reply(200, [success |-> TRUE, data |-> result.data], result.calls, st)

\* createDish
CreateDishH(st, dishData, newId, fail, now) ==
    IF ~Truthy(dishData.title) \/ ~Truthy(dishData.description) \/ ~Truthy(dishData.category)
    THEN Reply(400, [success |-> FALSE,
                     message |-> "Title, description, and category are required"], <<>>, st)
    ELSE LET result == DishCreate(st, dishData, newId, fail, now)
         IN  IF Truthy(result.error)
             THEN Reply(500, [success |-> FALSE, message |-> "Error creating dish",
                              error |-> ErrorMessage(result.error)], result.calls, result.store)
             ELSE Reply(201, [success |-> TRUE, message |-> "Dish created successfully",
                              data |-> result.data[2][1]], result.calls, result.store)

\* updateDish
UpdateDishH(st, id, dishData, fail, now) ==
    LET result == DishUpdate(st, id, dishData, fail, now)
    IN  IF Truthy(result.error)
        THEN Reply(500, [success |-> FALSE, message |-> "Error updating dish",
                         error |-> ErrorMessage(result.error)], result.calls, result.store)
        ELSE IF ~Truthy(result.data) \/ ArrLen(result.data) = 0
        THEN Reply(404, [success |-> FALSE, message |-> "Dish not found"],
                   result.calls, result.store)
        ELSE Reply(200, [success |-> TRUE, message |-> "Dish updated successfully",
                         data |-> result.data[2][1]], result.calls, result.store)

\* deleteDish gated on the dish existing: 404 when no row has the id
DeleteDishH_ExistenceGated(st, id, fail) ==
    LET found == DishGetById(st, id, fail # "none")
    IN  IF Truthy(found.error)
        THEN Reply(500, [success |-> FALSE, message |-> "Error deleting dish",
                         error |-> ErrorMessage(found.error)], found.calls, st)
        ELSE IF ~Truthy(found.data)
        THEN Reply(404, [success |-> FALSE, message |-> "Dish not found"], found.calls, st)
        ELSE LET result == DishDelete(st, id, fail)
             IN  Reply(200, [success |-> TRUE, message |-> "Dish deleted successfully"],
                       found.calls \o result.calls, result.store)

\* deleteDish
DeleteDishH(st, id, fail) ==
    LET result == DishDelete(st, id, fail)
    IN  IF Truthy(result.error)
        THEN Reply(500, [success |-> FALSE, message |-> "Error deleting dish",
                         error |-> ErrorMessage(result.error)], result.calls, result.store)
        ELSE Reply(200, [success |-> TRUE, message |-> "Dish deleted successfully"],
                   result.calls, result.store)

\* getCategories
GetCategoriesH(st) ==
    Reply(200, [success |-> TRUE,
                data |-> <<"appetizers", "mains", "desserts", "drinks", "specials">>], <<>>, st)

\* the category count without its category test
CountCategory_NoTest(rows, c) == Len(rows)

\* the number of rows of a select result whose category is c
CountCategory(rows, c) == Len(SelectRows(rows, LAMBDA r : r.category = Str(<<c>>)))

\* getStats after its await: the response built from the three results
StatsReply(allDishes, featuredDishes, availableDishes, st) ==
    LET stats ==
            [total_dishes |-> IF Truthy(allDishes.data) THEN ArrLen(allDishes.data) ELSE 0,
             featured_dishes |->
                IF Truthy(featuredDishes.data) THEN ArrLen(featuredDishes.data) ELSE 0,
             available_dishes |->
                IF Truthy(availableDishes.data) THEN ArrLen(availableDishes.data) ELSE 0,
             categories |->
                [c \in DishCategoryEnum |->
                    IF Truthy(allDishes.data) THEN CountCategory(allDishes.data[2], c) ELSE 0]]
    IN  Reply(200, [success |-> TRUE, data |-> stats],
              allDishes.calls \o featuredDishes.calls \o availableDishes.calls, st)

\* getStats: three selects issued together; each may fail on its own
GetStatsH(st, failAll, failFeatured, failAvailable) ==
    StatsReply(DishGetAll(st, Null, failAll), DishGetFeatured(st, failFeatured),
               DishGetAvailable(st, failAvailable), st)

---------------------------------------------------------------------------
(* ContactModel (models/Contact.js) *)

\* a create that lets the body set the status
ContactRecord_StatusFromBody(contactData, now) ==
    [name |-> contactData.name,
     email |-> contactData.email,
     phone |-> Or(contactData.phone, Null),
     event_type |-> Or(contactData.eventType, Null),
     guests |-> Or(contactData.guests, Null),
     preferred_date |-> Or(contactData.date, Null),
     message |-> contactData.message,
     status |-> Or(contactData.status, Str(<<"new">>)),
     created_at |-> Time(now),
     updated_at |-> Time(now)]

\* the record ContactModel.create hands to dbHelpers.insert
ContactRecord(contactData, now) ==
    [name |-> contactData.name,
     email |-> contactData.email,
     phone |-> Or(contactData.phone, Null),
     event_type |-> Or(contactData.eventType, Null),
     guests |-> Or(contactData.guests, Null),
     preferred_date |-> Or(contactData.date, Null),
     message |-> contactData.message,
     status |-> Str(<<"new">>),
     created_at |-> Time(now),
     updated_at |-> Time(now)]

\* ContactModel.create
ContactCreate(st, contactData, newId, fail, now) ==
    DbInsert(st, ContactTable, ContactRecord(contactData, now), newId, fail)

\* ContactModel.getAll
ContactGetAll(st, status, fail) ==
    DbSelect(st, ContactTable, IF Truthy(status) THEN [status |-> status] ELSE <<>>, fail)

\* ContactModel.getById
ContactGetById(st, id, fail) ==
    LET result == DbSelect(st, ContactTable, [id |-> id], fail)
    IN  [data |-> IF Truthy(result.data)
                  THEN (IF result.data[2] # <<>> THEN result.data[2][1] ELSE Undef)
                  ELSE Null,
         error |-> result.error,
         calls |-> result.calls]

\* an update that clears the phone along with setting the status
StatusUpdate_ClearsPhone(status, now) ==
    [name |-> Undef, email |-> Undef, phone |-> Null, event_type |-> Undef,
     guests |-> Undef, preferred_date |-> Undef, message |-> Undef, status |-> status,
     updated_at |-> Time(now)]

\* updateData of ContactModel.updateStatus: the columns it does not name are not sent
StatusUpdate(status, now) ==
    [name |-> Undef, email |-> Undef, phone |-> Undef, event_type |-> Undef,
     guests |-> Undef, preferred_date |-> Undef, message |-> Undef, status |-> status,
     updated_at |-> Time(now)]

\* ContactModel.updateStatus: only the status is handed to the store
ContactUpdateStatus(st, id, status, fail, now) ==
    DbUpdate(st, ContactTable, id, StatusUpdate(status, now), fail, now)

\* ContactModel.delete
ContactDelete(st, id, fail) == DbDelete(st, ContactTable, id, fail)

\* ContactModel.getByStatus
ContactGetByStatus(st, status, fail) ==
    DbSelect(st, ContactTable, [status |-> status], fail)

\* order('created_at', {ascending: false}); rows of one timestamp keep the order
\* the table holds them in
OrderByCreatedDesc(rows) ==
    LET before(sorted, r) ==
            Cardinality({j \in 1..Len(sorted) : sorted[j].created_at[2] >= r.created_at[2]})
        f[i \in 0..Len(rows)] ==
            IF i = 0 THEN <<>>
            ELSE LET k == before(f[i - 1], rows[i])
                 IN  SubSeq(f[i - 1], 1, k) \o <<rows[i]>> \o SubSeq(f[i - 1], k + 1, i - 1)
    IN  f[Len(rows)]

\* ContactModel.getRecent: the messages created in the last `days` days, newest
\* first; the clock counts days.  An invalid day count makes the threshold an
\* invalid date, toISOString throws, and the catch returns the error.
ContactGetRecent(st, days, fail, now) ==
    IF days = NaN
    THEN [data |-> Null, error |-> StoreError("Invalid time value"), calls |-> <<>>]
    ELSE IF fail
    THEN [data |-> Null, error |-> StoreError("select failed"),
          calls |-> <<Call("recent", ContactTable, days, FALSE)>>]
    ELSE [data |-> Arr(OrderByCreatedDesc(
                        SelectRows(st[ContactTable],
                                   LAMBDA r : r.created_at[2] >= now - days[2]))),
          error |-> Null,
          calls |-> <<Call("recent", ContactTable, days, TRUE)>>]

\* ContactModel.search: name or email ilike %term%, newest first
ContactSearch(st, searchTerm, fail) ==
    IF fail
    THEN [data |-> Null, error |-> StoreError("search failed"),
          calls |-> <<Call("search", ContactTable, searchTerm, FALSE)>>]
    ELSE [data |-> Arr(OrderByCreatedDesc(
                        SelectRows(st[ContactTable],
                                   LAMBDA r : ILike(r.name, searchTerm) \/ ILike(r.email, searchTerm)))),
          error |-> Null,
          calls |-> <<Call("search", ContactTable, searchTerm, TRUE)>>]

---------------------------------------------------------------------------
(* ContactController (controllers/contactController.js) *)

\* a character the pattern's [^\s@] accepts
NotSpaceNorAt(c) == c \notin Whitespace \cup {"@"}

\* an email test that asks only for an @ somewhere
EmailRegexTest_AtOnly(s) == \E i \in 1..Len(s) : s[i] = "@"

\* /^[^\s@]+@[^\s@]+\.[^\s@]+$/.test(s): the string splits as A @ B . C with
\* A, B and C non-empty runs of [^\s@]
EmailRegexTest(s) ==
    \E i \in 2..Len(s) : \E j \in (i + 2)..(Len(s) - 1) :
        /\ s[i] = "@"
        /\ s[j] = "."
        /\ \A k \in (1..Len(s)) \ {i, j} : NotSpaceNorAt(s[k])

\* submitContact
SubmitContactH(st, contactData, newId, fail, now) ==
    IF ~Truthy(contactData.name) \/ ~Truthy(contactData.email) \/ ~Truthy(contactData.message)
    THEN Reply(400, [success |-> FALSE,
                     message |-> "Name, email, and message are required"], <<>>, st)
    ELSE IF ~EmailRegexTest(contactData.email[2])
    THEN Reply(400, [success |-> FALSE,
                     message |-> "Please provide a valid email address"], <<>>, st)
    ELSE LET result == ContactCreate(st, contactData, newId, fail, now)
         IN  IF Truthy(result.error)
             THEN Reply(500, [success |-> FALSE, message |-> "Error submitting contact form",
                              error |-> ErrorMessage(result.error)], result.calls, result.store)
             ELSE Reply(201, [success |-> TRUE,
                              message |-> "Thank you for your message! We will get back to you soon.",
                              data |-> [id |-> result.data[2][1].id,
                                        name |-> result.data[2][1].name,
                                        email |-> result.data[2][1].email,
                                        created_at |-> result.data[2][1].created_at]],
                        result.calls, result.store)

RECURSIVE DigitsValue(_, _)
\* the value of the longest prefix of digits of s, after the digits read so far
DigitsValue(s, acc) ==
    IF s # <<>> /\ Head(s) \in Digits
    THEN DigitsValue(Tail(s), 10 * acc + DigitVal(Head(s)))
    ELSE acc

\* parseInt(v): leading whitespace skipped, an optional sign, then digits up to
\* the first other character; NaN when there is no digit
ParseInt(v) ==
    IF IsNum(v) THEN v
    ELSE IF ~IsStr(v) THEN NaN
    ELSE LET t == TrimStart(v[2])
             signed == t # <<>> /\ Head(t) \in {"-", "+"}
             d == IF signed THEN Tail(t) ELSE t
         IN  IF d = <<>> \/ Head(d) \notin Digits THEN NaN
             ELSE IF signed /\ Head(t) = "-" THEN Num(0 - DigitsValue(d, 0))
             ELSE Num(DigitsValue(d, 0))

\* a + b of two parsed numbers
Plus(a, b) == IF a = NaN \/ b = NaN THEN NaN ELSE Num(a[2] + b[2])

\* a < b of two numbers: false when either is NaN
LessThan(a, b) == a # NaN /\ b # NaN /\ a[2] < b[2]

\* the index Array.prototype.slice reads from an argument: NaN is 0, a negative
\* index counts from the end, and the result is kept within 0..len
SliceIndex(k, len) ==
    IF k = NaN THEN 0
    ELSE IF k[2] < 0 THEN Max(len + k[2], 0)
    ELSE Min(k[2], len)

\* slice that keeps the element at its end index
Slice_EndInclusive(rows, start, end) ==
    SubSeq(rows, SliceIndex(start, Len(rows)) + 1, Min(SliceIndex(end, Len(rows)) + 1, Len(rows)))

\* rows.slice(start, end)
Slice(rows, start, end) ==
    SubSeq(rows, SliceIndex(start, Len(rows)) + 1, SliceIndex(end, Len(rows)))

DefaultLimit == 50
DefaultOffset == 0

\* getAllMessages
GetAllMessagesH(st, query, fail) ==
    LET limit == IF query.limit = Undef THEN Num(DefaultLimit) ELSE query.limit
        offset == IF query.offset = Undef THEN Num(DefaultOffset) ELSE query.offset
        result == IF Truthy(query.status)
                  THEN ContactGetByStatus(st, query.status, fail)
                  ELSE ContactGetAll(st, Null, fail)
        startIndex == ParseInt(offset)
        endIndex == Plus(startIndex, ParseInt(limit))
        paginatedData == IF Truthy(result.data)
                         THEN Slice(result.data[2], startIndex, endIndex)
                         ELSE <<>>
    IN  IF Truthy(result.error)
        THEN Reply(500, [success |-> FALSE, message |-> "Error fetching contact messages",
                         error |-> ErrorMessage(result.error)], result.calls, st)
        ELSE Reply(200, [success |-> TRUE,
                         data |-> Arr(paginatedData),
                         pagination |->
                            [total |-> IF Truthy(result.data) THEN ArrLen(result.data) ELSE 0,
                             limit |-> ParseInt(limit),
                             offset |-> ParseInt(offset),
                             has_more |-> IF Truthy(result.data)
                                          THEN LessThan(endIndex, Num(ArrLen(result.data)))
                                          ELSE FALSE]],
                   result.calls, st)

\* getMessageById
GetMessageByIdH(st, id, fail) ==
    LET result == ContactGetById(st, id, fail)
    IN  IF Truthy(result.error)
        THEN Reply(500, [success |-> FALSE, message |-> "Error fetching contact message",
                         error |-> ErrorMessage(result.error)], result.calls, st)
        ELSE IF ~Truthy(result.data)
        THEN Reply(404, [success |-> FALSE, message |-> "Contact message not found"],
                   result.calls, st)
        ELSE Reply(200, [success |-> TRUE, data |-> result.data], result.calls, st)

\* a status test that asks only for a status to be given
ValidStatus_AnyGiven(status) == Truthy(status)

\* validStatuses.includes(status)
ValidStatus(status) == status \in OneOf(ContactStatusEnum)

\* updateMessageStatus
UpdateMessageStatusH(st, id, status, fail, now) ==
    IF ~ValidStatus(status)
    THEN Reply(400, [success |-> FALSE,
                     message |-> "Invalid status. Must be one of: new, in_progress, completed, archived"],
               <<>>, st)
    ELSE LET result == ContactUpdateStatus(st, id, status, fail, now)
         IN  IF Truthy(result.error)
             THEN Reply(500, [success |-> FALSE, message |-> "Error updating message status",
                              error |-> ErrorMessage(result.error)], result.calls, result.store)
             ELSE IF ~Truthy(result.data) \/ ArrLen(result.data) = 0
             THEN Reply(404, [success |-> FALSE, message |-> "Contact message not found"],
                        result.calls, result.store)
             ELSE Reply(200, [success |-> TRUE,
                              message |-> "Message status updated successfully",
                              data |-> result.data[2][1]], result.calls, result.store)

\* deleteMessage
DeleteMessageH(st, id, fail) ==
    LET result == ContactDelete(st, id, fail)
    IN  IF Truthy(result.error)
        THEN Reply(500, [success |-> FALSE, message |-> "Error deleting message",
                         error |-> ErrorMessage(result.error)], result.calls, result.store)
        ELSE Reply(200, [success |-> TRUE, message |-> "Message deleted successfully"],
                   result.calls, result.store)

DefaultDays == 30

\* getRecentMessages
GetRecentMessagesH(st, query, fail, now) ==
    LET days == IF query.days = Undef THEN Num(DefaultDays) ELSE query.days
        result == ContactGetRecent(st, ParseInt(days), fail, now)
    IN  IF Truthy(result.error)
        THEN Reply(500, [success |-> FALSE, message |-> "Error fetching recent messages",
                         error |-> ErrorMessage(result.error)], result.calls, st)
        ELSE Reply(200, [success |-> TRUE,
                         data |-> Or(result.data, Arr(<<>>)),
                         count |-> IF Truthy(result.data) THEN ArrLen(result.data) ELSE 0,
                         days |-> ParseInt(days)], result.calls, st)

\* searchMessages
SearchMessagesH(st, query, fail) ==
    LET searchTerm == query.q
    IN  IF ~Truthy(searchTerm)
        THEN Reply(400, [success |-> FALSE, message |-> "Search term is required"], <<>>, st)
        ELSE LET result == ContactSearch(st, searchTerm, fail)
             IN  IF Truthy(result.error)
                 THEN Reply(500, [success |-> FALSE, message |-> "Error searching messages",
                                  error |-> ErrorMessage(result.error)], result.calls, st)
                 ELSE Reply(200, [success |-> TRUE,
                                  data |-> Or(result.data, Arr(<<>>)),
                                  count |-> IF Truthy(result.data) THEN ArrLen(result.data) ELSE 0,
                                  search_term |-> searchTerm], result.calls, st)

\* the messages of one status among rows
CountStatus(rows, c) == Len(SelectRows(rows, LAMBDA r : r.status = Str(<<c>>)))

\* getContactStats: three reads issued together; each may fail on its own
GetContactStatsH(st, failAll, failNew, failRecent, now) ==
    LET allMessages == ContactGetAll(st, Null, failAll)
        newMessages == ContactGetByStatus(st, Str(<<"new">>), failNew)
        recentMessages == ContactGetRecent(st, Num(DefaultDays), failRecent, now)
        stats ==
            [total_messages |-> IF Truthy(allMessages.data) THEN ArrLen(allMessages.data) ELSE 0,
             new_messages |-> IF Truthy(newMessages.data) THEN ArrLen(newMessages.data) ELSE 0,
             recent_messages |->
                IF Truthy(recentMessages.data) THEN ArrLen(recentMessages.data) ELSE 0,
             status_breakdown |->
                [c \in ContactStatusEnum |->
                    IF Truthy(allMessages.data) THEN CountStatus(allMessages.data[2], c) ELSE 0]]
    IN  Reply(200, [success |-> TRUE, data |-> stats],
              allMessages.calls \o newMessages.calls \o recentMessages.calls, st)

---------------------------------------------------------------------------
(* GeminiService (config/gemini.js) *)

Gateway == "gemini"

\* a test against undefined, which the null set by the constructor passes
IsAvailable_NotUndefined(g) == g \in {"null", "client"}

\* isAvailable
IsAvailable(g) == g # "null"

\* what model.generateContent does: it answers a text, or throws an error whose
\* message names an invalid key, an exceeded rate limit, or neither
GatewayOutcomes ==
    {"text", "API_KEY_INVALID", "RATE_LIMIT_EXCEEDED", "UNAVAILABLE",
     "RATE_LIMIT_EXCEEDED API_KEY_INVALID", "NO_MESSAGE"}

\* the words of a downstream error's message ("NO_MESSAGE": an error that has none)
MessageWords(msg) ==
    CASE msg = "RATE_LIMIT_EXCEEDED API_KEY_INVALID" -> {"RATE_LIMIT_EXCEEDED", "API_KEY_INVALID"}
      [] msg = "NO_MESSAGE" -> {}
      [] OTHER -> {msg}

\* error.message?.includes(part)
Includes(msg, part) == part \in MessageWords(msg)

Returned(result, calls) == [thrown |-> FALSE, result |-> result, error |-> "", calls |-> calls]
Thrown(msg, calls) == [thrown |-> TRUE, result |-> [success |-> FALSE], error |-> msg, calls |-> calls]

\* one call of model.generateContent, with the answer it got
GenerateContent(prompt, outcome) ==
    <<Call("generateContent", Gateway, prompt, outcome = "text") @@ [answer |-> outcome]>>

\* the menu line of one dish of the portfolio context
MenuLine(dish) ==
    [title |-> dish.title, description |-> dish.description, category |-> dish.category]

\* generateResponse: the menu is added to the prompt only for a non-empty context;
\* a downstream error is rethrown under the description of its kind
GenerateResponse(g, message, portfolioContext, outcome) ==
    IF ~IsAvailable(g)
    THEN Thrown("Gemini AI service is not available. Please check your API key.", <<>>)
    ELSE LET menu == IF Truthy(portfolioContext) /\ ArrLen(portfolioContext) > 0
                     THEN MapRows(portfolioContext[2], MenuLine)
                     ELSE <<>>
             call == GenerateContent([menu |-> menu, question |-> message], outcome)
         IN  IF outcome = "text"
             THEN Returned([success |-> TRUE, message |-> "text"], call)
             ELSE IF Includes(outcome, "API_KEY_INVALID")
             THEN Thrown("Invalid Gemini API key. Please check your configuration.", call)
             ELSE IF Includes(outcome, "RATE_LIMIT_EXCEEDED")
             THEN Thrown("Rate limit exceeded. Please try again later.", call)
             ELSE Thrown("Failed to generate response. Please try again.", call)

\* dietaryRestrictions.length > 0 ? dietaryRestrictions.join(', ') : 'None' throws
\* for null (no length) and for a non-empty string (no join)
RestrictionsThrow(dietaryRestrictions) ==
    \/ dietaryRestrictions \in {Undef, Null}
    \/ IsStr(dietaryRestrictions) /\ Len(dietaryRestrictions[2]) > 0

\* generateFoodRecommendation: every error inside the try is rethrown as one message
GenerateFoodRecommendation(g, preferences, dietaryRestrictions, outcome) ==
    IF ~IsAvailable(g) THEN Thrown("Gemini AI service is not available.", <<>>)
    ELSE IF RestrictionsThrow(dietaryRestrictions)
    THEN Thrown("Failed to generate food recommendations.", <<>>)
    ELSE LET call == GenerateContent([preferences |-> preferences,
                                      dietaryRestrictions |-> dietaryRestrictions], outcome)
         IN  IF outcome = "text"
             THEN Returned([success |-> TRUE, recommendations |-> "text"], call)
             ELSE Thrown("Failed to generate food recommendations.", call)

\* generateCookingTip
GenerateCookingTip(g, topic, outcome) ==
    IF ~IsAvailable(g) THEN Thrown("Gemini AI service is not available.", <<>>)
    ELSE LET call == GenerateContent([topic |-> topic], outcome)
         IN  IF outcome = "text"
             THEN Returned([success |-> TRUE, tip |-> "text"], call)
             ELSE Thrown("Failed to generate cooking tip.", call)

\* testConnection: never throws, the failure is in the result
TestConnection(g, outcome) ==
    IF ~IsAvailable(g)
    THEN Returned([success |-> FALSE, message |-> "Gemini API key not configured"], <<>>)
    ELSE LET call == GenerateContent([greeting |-> TRUE], outcome)
         IN  IF outcome = "text"
             THEN Returned([success |-> TRUE, message |-> "Gemini AI connection successful",
                            testResponse |-> "text"], call)
             ELSE Returned([success |-> FALSE, message |-> "Failed to connect to Gemini AI",
                            error |-> outcome], call)

---------------------------------------------------------------------------
(* ChatbotController (controllers/chatbotController.js) *)

\* v.trim() of a value that is no string throws a TypeError
TrimThrows(v) == Truthy(v) /\ ~IsStr(v)

\* a required text that is accepted without trimming it
Blank_NoTrim(v) == ~Truthy(v)

\* !v || v.trim().length === 0, for the values trim is defined on
Blank(v) == ~Truthy(v) \/ Len(Trim(v[2])) = 0

Fallback == "I apologize, but I'm having trouble right now."

\* the fields of a dish the chat handler passes on as context
ContextOf(dish) ==
    [title |-> dish.title, description |-> dish.description, category |-> dish.category,
     price |-> dish.price]

NoSelect == [data |-> Null, error |-> Null, calls |-> <<>>]

\* chat
ChatH(st, g, body, fail, outcome) ==
    LET message == body.message
        includeContext == IF body.includeContext = Undef THEN Bool(TRUE) ELSE body.includeContext
    IN  IF TrimThrows(message)
        THEN Reply(500, [success |-> FALSE, message |-> "message.trim is not a function",
                         fallbackMessage |-> Fallback], <<>>, st)
        ELSE IF Blank(message)
        THEN Reply(400, [success |-> FALSE, message |-> "Message is required"], <<>>, st)
        ELSE IF ~IsAvailable(g)
        THEN Reply(503, [success |-> FALSE,
                         message |-> "AI chatbot service is currently unavailable. Please contact us directly for assistance."],
                   <<>>, st)
        ELSE LET dishesResult == IF Truthy(includeContext) THEN DishGetAvailable(st, fail)
                                 ELSE NoSelect
                 portfolioContext == IF Truthy(dishesResult.data)
                                     THEN Arr(MapRows(dishesResult.data[2], ContextOf))
                                     ELSE Null
                 aiResponse == GenerateResponse(g, message, portfolioContext, outcome)
                 calls == dishesResult.calls \o aiResponse.calls
             IN  IF aiResponse.thrown
                 THEN Reply(500, [success |-> FALSE, message |-> aiResponse.error,
                                  fallbackMessage |-> Fallback], calls, st)
                 ELSE Reply(200, [success |-> TRUE,
                                  data |-> [userMessage |-> message,
                                            aiResponse |-> aiResponse.result.message,
                                            contextIncluded |-> portfolioContext # Null]],
                            calls, st)

\* getFoodRecommendation
GetFoodRecommendationH(st, g, body, outcome) ==
    LET preferences == body.preferences
        dietaryRestrictions == IF body.dietaryRestrictions = Undef THEN Arr(<<>>)
                               ELSE body.dietaryRestrictions
    IN  IF TrimThrows(preferences)
        THEN Reply(500, [success |-> FALSE, message |-> "preferences.trim is not a function"],
                   <<>>, st)
        ELSE IF Blank(preferences)
        THEN Reply(400, [success |-> FALSE, message |-> "Food preferences are required"],
                   <<>>, st)
        ELSE IF ~IsAvailable(g)
        THEN Reply(503, [success |-> FALSE,
                         message |-> "Recommendation service is currently unavailable"],
                   <<>>, st)
        ELSE LET recommendation ==
                     GenerateFoodRecommendation(g, preferences, dietaryRestrictions, outcome)
             IN  IF recommendation.thrown
                 THEN Reply(500, [success |-> FALSE, message |-> recommendation.error],
                            recommendation.calls, st)
                 ELSE Reply(200, [success |-> TRUE,
                                  data |-> [preferences |-> preferences,
                                            dietaryRestrictions |-> dietaryRestrictions,
                                            recommendations |-> recommendation.result.recommendations]],
                            recommendation.calls, st)

\* getCookingTip
GetCookingTipH(st, g, body, outcome) ==
    LET topic == body.topic
    IN  IF TrimThrows(topic)
        THEN Reply(500, [success |-> FALSE, message |-> "topic.trim is not a function"],
                   <<>>, st)
        ELSE IF Blank(topic)
        THEN Reply(400, [success |-> FALSE, message |-> "Cooking topic is required"], <<>>, st)
        ELSE IF ~IsAvailable(g)
        THEN Reply(503, [success |-> FALSE,
                         message |-> "Cooking tips service is currently unavailable"],
                   <<>>, st)
        ELSE LET tip == GenerateCookingTip(g, topic, outcome)
             IN  IF tip.thrown
                 THEN Reply(500, [success |-> FALSE, message |-> tip.error], tip.calls, st)
                 ELSE Reply(200, [success |-> TRUE,
                                  data |-> [topic |-> topic, tip |-> tip.result.tip]],
                            tip.calls, st)

\* testAI
TestAIH(st, g, outcome) ==
    LET result == TestConnection(g, outcome)
    IN  Reply(IF result.result.success THEN 200 ELSE 503, result.result, result.calls, st)

Capabilities ==
    <<"General food and cooking questions", "Menu item information", "Food recommendations",
      "Cooking tips and advice", "Event planning assistance">>

\* getStatus
GetStatusH(st, g) ==
    LET isAvailable == IsAvailable(g)
    IN  Reply(200, [success |-> TRUE,
                    data |-> [aiAvailable |-> isAvailable,
                              capabilities |-> Capabilities,
                              apiStatus |-> IF isAvailable THEN "connected" ELSE "disconnected"]],
              <<>>, st)

\* getConversationHistory
GetConversationHistoryH(st) ==
    Reply(200, [success |-> TRUE,
                data |-> [conversations |-> <<>>,
                          message |-> "Conversation history feature coming soon"]],
          <<>>, st)

---------------------------------------------------------------------------
(* The responses a handler sends, statement by statement *)

\* `if (when) { [return] res.status(status).json(...) }`: a response sent when the
\* test holds, and whether the handler returns with it
Send(when, status, returns) == [when |-> when, status |-> status, returns |-> returns]

\* a statement inside the try that throws when the test holds
Throw(when) == [when |-> when, status |-> 0, returns |-> TRUE]

\* the status the catch block of every handler sends
CatchStatus == 500

RECURSIVE Run(_, _)
\* the statuses sent by running the statements in order after those sent so far:
\* a return ends the handler, a throw goes to the catch, which sends its response,
\* and a response that is not returned is followed by the statements after it
Run(steps, sent) ==
    IF steps = <<>> THEN sent
    ELSE LET s == Head(steps)
         IN  IF ~s.when THEN Run(Tail(steps), sent)
             ELSE IF s.status = 0 THEN Append(sent, CatchStatus)
             ELSE IF s.returns THEN Append(sent, s.status)
             ELSE Run(Tail(steps), Append(sent, s.status))

\* an updateDish whose not-found response is sent without return
UpdateDishSteps_NoReturn(st, id, dishData, fail, now) ==
    LET result == DishUpdate(st, id, dishData, fail, now)
    IN  <<Send(Truthy(result.error), 500, TRUE),
          Send(~Truthy(result.data) \/ ArrLen(result.data) = 0, 404, FALSE),
          Send(TRUE, 200, FALSE)>>

\* updateDish: the error and not-found responses are returned, the success
\* response is the last statement of the try
UpdateDishSteps(st, id, dishData, fail, now) ==
    LET result == DishUpdate(st, id, dishData, fail, now)
    IN  <<Send(Truthy(result.error), 500, TRUE),
          Send(~Truthy(result.data) \/ ArrLen(result.data) = 0, 404, TRUE),
          Send(TRUE, 200, FALSE)>>

\* submitContact
SubmitContactSteps(st, contactData, newId, fail, now) ==
    LET required == Truthy(contactData.name) /\ Truthy(contactData.email)
                    /\ Truthy(contactData.message)
        valid == required /\ EmailRegexTest(contactData.email[2])
    IN  <<Send(~required, 400, TRUE),
          Send(~valid, 400, TRUE),
          Send(valid /\ Truthy(ContactCreate(st, contactData, newId, fail, now).error), 500, TRUE),
          Send(TRUE, 201, FALSE)>>

\* chat: message.trim() throws for a message that is no string; the inner try
\* around the context fetch sends nothing
ChatSteps(st, g, body, fail, outcome) ==
    LET message == body.message
        includeContext == IF body.includeContext = Undef THEN Bool(TRUE) ELSE body.includeContext
        given == ~TrimThrows(message) /\ ~Blank(message)
        dishesResult == IF Truthy(includeContext) THEN DishGetAvailable(st, fail) ELSE NoSelect
        portfolioContext == IF Truthy(dishesResult.data)
                            THEN Arr(MapRows(dishesResult.data[2], ContextOf))
                            ELSE Null
    IN  <<Throw(TrimThrows(message)),
          Send(~given, 400, TRUE),
          Send(~IsAvailable(g), 503, TRUE),
          Throw(given /\ IsAvailable(g)
                /\ GenerateResponse(g, message, portfolioContext, outcome).thrown),
          Send(TRUE, 200, FALSE)>>

---------------------------------------------------------------------------
(* The application (server.js): health check, error middleware, unmatched routes *)

\* process.env.NODE_ENV || 'development'
Environment(ne) == IF ne = "unset" THEN "development" ELSE ne

\* GET /api/health
HealthH(st, ne, now) ==
    Reply(200, [message |-> "Food Portfolio API is running!", timestamp |-> now,
                environment |-> Environment(ne)], <<>>, st)

\* the error handling middleware: an error passed to next(err), such as the JSON
\* body parser's; the error itself is exposed in development only
ErrorMiddlewareH(st, ne, err) ==
    Reply(IF Truthy(err.status) THEN err.status[2] ELSE 500,
          [message |-> IF Truthy(err.message) THEN err.message ELSE Str(<<"I", "S", "E">>),
           error |-> IF ne = "development" THEN "err" ELSE "{}"],
          <<>>, st)

AvailableEndpoints ==
    <<"GET /api/health", "GET /api/portfolio", "POST /api/portfolio",
      "PUT /api/portfolio/:id", "DELETE /api/portfolio/:id", "POST /api/contact",
      "POST /api/chatbot/chat", "POST /api/chatbot/recommend", "GET /api/chatbot/status">>

StartsWithApi(path) == Len(path) >= 2 /\ path[1] = "api"

\* a request no route matched.  In production only GET is caught: under /api/ it is
\* answered 404 in JSON, elsewhere with the application's index.html, and another
\* method falls to the framework's own 404 page; in development every method and
\* path is answered 404 in JSON.
NotFoundH(st, ne, method, path) ==
    LET notFound == Reply(404, [message |-> "API endpoint not found",
                                availableEndpoints |-> AvailableEndpoints], <<>>, st)
    IN  IF ne = "production"
        THEN IF method # "GET" THEN Reply(404, [html |-> "Cannot " \o method], <<>>, st)
             ELSE IF StartsWithApi(path) THEN notFound
             ELSE Reply(200, [file |-> "index.html"], <<>>, st)
        ELSE notFound

---------------------------------------------------------------------------
(* The routers (routes/portfolio.js, routes/contact.js) *)

\* A path below a router's mount point is the sequence of its segments, each the
\* sequence of its characters; a pattern is a path in which Param stands for :id.
Param == <<":id">>

Route(method, pattern, handler) == [method |-> method, pattern |-> pattern, handler |-> handler]

\* the portfolio routes with /:id registered first
PortfolioRoutes_IdFirst ==
    <<Route("GET", <<>>, "getAllDishes"),
      Route("GET", <<Param>>, "getDishById"),
      Route("GET", <<<<"stats">>>>, "getStats"),
      Route("GET", <<<<"categories">>>>, "getCategories"),
      Route("POST", <<>>, "createDish"),
      Route("PUT", <<Param>>, "updateDish"),
      Route("DELETE", <<Param>>, "deleteDish")>>

\* the routes of /api/portfolio in the order they are registered
PortfolioRoutes ==
    <<Route("GET", <<>>, "getAllDishes"),
      Route("GET", <<<<"stats">>>>, "getStats"),
      Route("GET", <<<<"categories">>>>, "getCategories"),
      Route("GET", <<Param>>, "getDishById"),
      Route("POST", <<>>, "createDish"),
      Route("PUT", <<Param>>, "updateDish"),
      Route("DELETE", <<Param>>, "deleteDish")>>

\* the routes of /api/contact in the order they are registered
ContactRoutes ==
    <<Route("POST", <<>>, "submitContact"),
      Route("GET", <<>>, "getAllMessages"),
      Route("GET", <<<<"stats">>>>, "getContactStats"),
      Route("GET", <<<<"recent">>>>, "getRecentMessages"),
      Route("GET", <<<<"search">>>>, "searchMessages"),
      Route("GET", <<Param>>, "getMessageById"),
      Route("PUT", <<Param, <<"status">>>>, "updateMessageStatus"),
      Route("DELETE", <<Param>>, "deleteMessage")>>

\* a pattern matches a path of its length whose segments are its own, :id
\* matching any segment
Match(pattern, path) ==
    /\ Len(pattern) = Len(path)
    /\ \A i \in 1..Len(pattern) : pattern[i] = Param \/ pattern[i] = path[i]

\* the handler a router runs: that of the first registered route whose method
\* and pattern match (no handler passes the request on), "none" when none does
Dispatch(routes, method, path) ==
    LET hits == {i \in 1..Len(routes) : routes[i].method = method /\ Match(routes[i].pattern, path)}
    IN  IF hits = {} THEN "none"
        ELSE routes[CHOOSE i \in hits : \A j \in hits : i <= j].handler

\* req.params.id of a matched request: the first segment where the route has :id
ParamId(path) == IF path = <<>> THEN Undef ELSE Str(path[1])

---------------------------------------------------------------------------
(* Requests: the inputs the handlers are driven with *)

Text(t) == Str(t)
Bogus == Str(<<"bogus">>)
Mains == Str(<<"mains">>)
Desserts == Str(<<"desserts">>)
Malformed == Str(<<"x">>)        \* a path id that is no uuid

BaseDish ==
    [title |-> Str(<<"A", "b">>), description |-> Str(<<"c">>), category |-> Mains,
     image_url |-> Undef, price |-> Undef, ingredients |-> Undef,
     is_featured |-> Undef, is_available |-> Undef]

\* bodies of POST /api/portfolio: required fields missing, empty or invalid
ValidationBodies ==
    {[BaseDish EXCEPT !.title = t, !.description = d, !.category = c] :
        t \in {Undef, Str(<<>>), BaseDish.title},
        d \in {Undef, BaseDish.description},
        c \in {Undef, Mains, Bogus}}

\* bodies that exercise the optional fields' defaults
DefaultsBodies ==
    {[BaseDish EXCEPT !.is_available = a, !.ingredients = i] :
        a \in {Undef, Null, Bool(TRUE), Bool(FALSE), Str(<<"false">>), Num(0)},
        i \in {Undef, Null, Arr(<<>>)}}

\* bodies that fill the catalog with a mixture of dishes
CatalogBodies ==
    {[BaseDish EXCEPT !.category = c, !.is_featured = f, !.is_available = a] :
        c \in {Mains, Desserts}, f \in {Undef, Bool(TRUE)}, a \in {Undef, Bool(FALSE)}}

\* a featured dish and a dish that is not
FeaturedBodies == {[BaseDish EXCEPT !.is_featured = f] : f \in {Undef, Bool(TRUE)}}

DishBodies == ValidationBodies \cup DefaultsBodies \cup CatalogBodies

NoFields ==
    [title |-> Undef, description |-> Undef, category |-> Undef,
     image_url |-> Undef, price |-> Undef, ingredients |-> Undef,
     is_featured |-> Undef, is_available |-> Undef]

\* bodies of PUT /api/portfolio/:id: partial records
DishUpdates ==
    {NoFields}
    \cup {[NoFields EXCEPT !.is_featured = Bool(b)] : b \in BOOLEAN}
    \cup {[NoFields EXCEPT !.is_available = Bool(b)] : b \in BOOLEAN}
    \cup {[NoFields EXCEPT !.category = Bogus]}

\* bodies of POST /api/portfolio with every kind of category
CategoryBodies ==
    {[BaseDish EXCEPT !.category = c] :
        c \in {Undef, Null, Str(<<>>), Bogus, Num(1), Mains, Desserts}}

\* bodies of PUT /api/portfolio/:id with every kind of category
CategoryUpdates ==
    {[NoFields EXCEPT !.category = c] :
        c \in {Undef, Null, Str(<<>>), Bogus, Num(1), Desserts}}

\* a timestamp far ahead of every clock reading, as a client may send it
FutureTime == Time(MaxClock + 7)

\* bodies of PUT /api/portfolio/:id that carry timestamps
TimestampUpdates ==
    {NoFields}
    \cup {NoFields @@ [created_at |-> t] : t \in {Time(0), FutureTime}}
    \cup {NoFields @@ [updated_at |-> FutureTime]}

\* an identifier the store never generated, as a client may send it
ForeignId == Uuid(9)

\* bodies of PUT /api/portfolio/:id that carry an id
IdentityUpdates ==
    {NoFields}
    \cup {NoFields @@ [id |-> i] : i \in {ForeignId, Uuid(1), Malformed}}
    \cup {[NoFields EXCEPT !.is_featured = Bool(TRUE)] @@ [id |-> ForeignId]}

NoQuery == [search |-> Undef, featured |-> Undef, available |-> Undef, category |-> Undef]

\* query strings of GET /api/portfolio: every combination of the four parameters
\* being present, and the values the handler's tests tell apart from them
\* (an empty search, featured=false)
DishQueries ==
    [search : {Undef, Str(<<"a">>)},
     featured : {Undef, Str(<<"true">>)},
     available : {Undef, Str(<<"true">>)},
     category : {Undef, Mains}]
    \cup {[NoQuery EXCEPT !.search = Str(<<>>), !.featured = f] :
            f \in {Undef, Str(<<"true">>), Str(<<"false">>)}}
    \cup {[NoQuery EXCEPT !.featured = Str(<<"false">>), !.available = a] :
            a \in {Undef, Str(<<"true">>)}}

\* path ids: every id the store may generate (held by a row or not), and a malformed one
DishIds == {Uuid(n) : n \in 1..MaxDishes} \cup {Malformed}

BaseContact ==
    [name |-> Str(<<"n">>), email |-> Str(<<"a", "@", "b", ".", "c">>),
     phone |-> Undef, eventType |-> Undef, guests |-> Undef, date |-> Undef,
     message |-> Str(<<"m">>)]

\* emails the pattern accepts
GoodEmails ==
    {Str(<<"a", "@", "b", ".", "c">>), Str(<<"a", ".", "b", "@", "c", ".", "d">>)}

\* emails the pattern rejects: no @, no dot after the @, two @, a space, an empty
\* part before the @, between the @ and the dot, or after the dot
BadEmails ==
    {Str(<<"a", "b", "c">>),
     Str(<<"a", "@", "b">>),
     Str(<<"a", ".", "b", "@", "c">>),
     Str(<<"a", "@", "@", "b", ".", "c">>),
     Str(<<"a", "@", "b", ".", "c", "@", "d">>),
     Str(<<"a", " ", "@", "b", ".", "c">>),
     Str(<<"a", "@", "b", ".", "c", " ">>),
     Str(<<"@", "b", ".", "c">>),
     Str(<<"a", "@", ".", "c">>),
     Str(<<"a", "@", "b", ".">>)}

\* bodies of POST /api/contact
ContactBodies ==
    {[BaseContact EXCEPT !.email = e] : e \in GoodEmails \cup BadEmails \cup {Undef, Null, Str(<<>>)}}
    \cup {[BaseContact EXCEPT !.name = n, !.message = m] :
            n \in {Undef, Str(<<>>), BaseContact.name},
            m \in {Undef, Str(<<>>), BaseContact.message}}
    \cup {[BaseContact EXCEPT !.phone = Str(<<"1">>), !.eventType = Str(<<"w">>),
                              !.guests = Num(4), !.date = Str(<<"d">>)]}

\* body statuses of PUT /api/contact/:id/status
StatusInputs ==
    {Undef, Null, Bogus, Str(<<"NEW">>), Str(<<"new">>), Str(<<"in_progress">>)}

NoPaging == [status |-> Undef, limit |-> Undef, offset |-> Undef]

\* query strings of GET /api/contact
MessageQueries ==
    [status : {Undef},
     limit : {Undef, Str(<<"0">>), Str(<<"1">>), Str(<<"2">>), Str(<<"-", "1">>),
              Str(<<"1", "x">>), Str(<<"x">>)},
     offset : {Undef, Str(<<"1">>), Str(<<"3">>), Str(<<"-", "1">>), Str(<<"x">>)}]
    \cup [status : {Str(<<"new">>), Bogus},
          limit : {Undef, Str(<<"1">>)},
          offset : {Undef, Str(<<"1">>)}]

ContactIds == {Uuid(n) : n \in 1..MaxContacts} \cup {Malformed}

\* arguments of the helpers called directly: filters, records and partial records
\* the store accepts, and ones it refuses
HelperFilters ==
    {<<>>, [id |-> Uuid(1)], [id |-> Malformed], [category |-> Mains], [category |-> Bogus],
     [is_featured |-> Bool(TRUE)]}

HelperRecords ==
    {DishRecord(BaseDish, 0), DishRecord([BaseDish EXCEPT !.category = Bogus], 0)}

HelperUpdates ==
    {UpdateData(NoFields, 0), UpdateData([NoFields EXCEPT !.category = Bogus], 0),
     UpdateData([NoFields EXCEPT !.is_featured = Bool(TRUE)], 0)}

\* bodies of POST /api/contact that carry a status, an id and timestamps of
\* their own (undefined where the body has no such field)
ForgedContactBodies ==
    {[BaseContact EXCEPT !.phone = ph] @@ [status |-> st, id |-> id, created_at |-> t, updated_at |-> t] :
        ph \in {Undef, Str(<<"1">>)},
        st \in {Undef, Str(<<"completed">>), Bogus},
        id \in {Undef, ForeignId, Uuid(1)},
        t \in {Undef, FutureTime}}

\* requests sent to the routers: the methods, and the paths below a mount point
RouteMethods == {"GET", "POST", "PUT", "DELETE"}

RoutePaths ==
    {<<>>, <<<<"stats">>>>, <<<<"categories">>>>, <<<<"recent">>>>, <<<<"search">>>>,
     <<Uuid(1)[2]>>, <<Malformed[2]>>, <<Uuid(1)[2], <<"status">>>>}

\* a request as a router sees it
RoutedRequest(mount, method, path, query, body) ==
    [id |-> ParamId(path), query |-> query, body |-> body, method |-> method,
     path |-> path, mount |-> mount, err |-> Undef]

\* query strings of GET /api/contact/recent
RecentQueries == {[days |-> d] : d \in {Undef, Str(<<"0">>), Str(<<"1">>), Str(<<"x">>)}}

\* query strings of GET /api/contact/search
SearchQueries == {[q |-> t] : t \in {Undef, Str(<<>>), Str(<<"n">>), Str(<<"z">>)}}

\* a required text of the chatbot routes: missing, empty, blank, given, or no string
Texts == {Undef, Null, Str(<<>>), Str(<<" ">>), Str(<<" ", "\t">>), Str(<<"h", "i">>),
          Str(<<" ", "h">>), Num(5)}

ChatBodies ==
    {[message |-> m, includeContext |-> c] : m \in Texts, c \in {Undef, Bool(FALSE)}}

RecommendBodies ==
    {[preferences |-> p, dietaryRestrictions |-> d] :
        p \in {Undef, Str(<<" ">>), Str(<<"h", "i">>)},
        d \in {Undef, Null, Arr(<<Str(<<"n">>)>>)}}

TipBodies == {[topic |-> t] : t \in {Undef, Str(<<" ">>), Str(<<"h", "i">>), Num(5)}}

\* dishes the chat context is drawn from: available or not
ContextBodies == {[BaseDish EXCEPT !.is_available = a] : a \in {Undef, Bool(FALSE)}}

\* arguments of the service methods when they are called directly
ContextArgs == {Null, Arr(<<>>), Arr(<<ContextOf(BaseDish)>>)}
RestrictionArgs == {Null, Arr(<<>>), Arr(<<Str(<<"n">>)>>)}
QuestionArgs == {Str(<<"h", "i">>), Str(<<" ">>)}

\* errors that reach the error middleware: the body parser's 400, and a bare error
MiddlewareErrors ==
    {[status |-> Num(400), message |-> Str(<<"b", "a", "d">>)],
     [status |-> Undef, message |-> Undef]}

\* paths no route matches, as their segments
UnmatchedPaths == {<<"api", "nope">>, <<"nope">>}
Methods == {"GET", "POST"}

Request(id, query, body) == [id |-> id, query |-> query, body |-> body]

\* a request told by its method and path (and, for the error middleware, the error)
AppRequest(method, path, err) ==
    [id |-> Undef, query |-> Undef, body |-> Undef, method |-> method, path |-> path,
     err |-> err]

---------------------------------------------------------------------------
(* The state machine *)

NoResponse ==
    [op |-> "none", req |-> Request(Undef, Undef, Undef), status |-> 0,
     body |-> [success |-> TRUE], calls |-> <<>>]

NoPrev == [op |-> "none", id |-> Undef, status |-> 0, failed |-> FALSE, changed |-> FALSE]

\* some backend call of the request answered with an error
BackendFailed(r) == \E i \in 1..Len(r.calls) : ~r.calls[i].ok

\* what is remembered of a request when the next one is handled
Summary(r) ==
    [op |-> r.op, id |-> r.req.id, status |-> r.status, failed |-> BackendFailed(r),
     changed |-> store # pre]

\* a constructor that builds the client whatever the key
Constructor_AlwaysClient(apiKey) == "client"

\* GeminiService constructor: genAI is null when GEMINI_API_KEY is unset or empty
Constructor(apiKey) == IF ~Truthy(apiKey) THEN "null" ELSE "client"

\* no getStats is suspended
Idle ==
    [active |-> FALSE, pending |-> {}, all |-> NoSelect, featured |-> NoSelect,
     available |-> NoSelect]

Init ==
    /\ store = [t \in {DishTable, ContactTable} |-> <<>>]
    /\ seq = [t \in {DishTable, ContactTable} |-> 0]
    /\ env \in {Undef, Str(<<>>), Str(<<"k">>)}
    /\ genAI = Constructor(env)
    /\ nodeEnv \in {"production", "development", "unset"}
    /\ clock = 0
    /\ resp = NoResponse
    /\ pre = store
    /\ prev = NoPrev
    /\ inflight = Idle

\* a gateway that gives its client up once a downstream call has failed
GenAIAfter_NullOnFailure(g, calls) ==
    IF \E i \in 1..Len(calls) : calls[i].table = Gateway /\ ~calls[i].ok THEN "null" ELSE g

\* GeminiService.genAI after a request: no method of the service assigns it
GenAIAfter(g, calls) == g

\* one request handled: the reply r of handler op to request req
Handle(op, req, r) ==
    /\ resp' = [op |-> op, req |-> req, status |-> r.status, body |-> r.body,
                calls |-> r.calls]
    /\ pre' = store
    /\ store' = r.store
    /\ seq' = [t \in DOMAIN seq |->
                 IF Len(r.store[t]) > Len(store[t]) THEN seq[t] + 1 ELSE seq[t]]
    /\ genAI' = GenAIAfter(genAI, r.calls)
    /\ inflight' = IF op = "getStats" THEN Idle ELSE inflight
    /\ UNCHANGED <<env, nodeEnv, clock>>

NextDishId == Uuid(seq[DishTable] + 1)

\* the request before the last one is remembered only where a property of two
\* requests in succession needs it
Forget == UNCHANGED prev
Remember == prev' = Summary(resp)

GetAllDishes ==
    \E q \in DishQueries, fail \in BOOLEAN :
        Handle("getAllDishes", Request(Undef, q, Undef), GetAllDishesH(store, q, fail))

GetDishById ==
    \E id \in DishIds, fail \in BOOLEAN :
        Handle("getDishById", Request(id, Undef, Undef), GetDishByIdH(store, id, fail))

CreateDishFrom(bodies) ==
    \E b \in bodies, fail \in WriteFaults :
        /\ seq[DishTable] < MaxDishes
        /\ Handle("createDish", Request(Undef, Undef, b),
                  CreateDishH(store, b, NextDishId, fail, clock))

CreateDish == CreateDishFrom(DishBodies)

UpdateDishFrom(bodies) ==
    \E id \in DishIds, b \in bodies, fail \in WriteFaults :
        Handle("updateDish", Request(id, Undef, b), UpdateDishH(store, id, b, fail, clock))

UpdateDish == UpdateDishFrom(DishUpdates)

DeleteDish ==
    \E id \in DishIds, fail \in WriteFaults :
        Handle("deleteDish", Request(id, Undef, Undef), DeleteDishH(store, id, fail))

GetCategories ==
    Handle("getCategories", Request(Undef, Undef, Undef), GetCategoriesH(store))

GetStats ==
    \E f1 \in BOOLEAN, f2 \in BOOLEAN, f3 \in BOOLEAN :
        Handle("getStats", Request(Undef, Undef, Undef), GetStatsH(store, f1, f2, f3))

\* the routes mounted at /api/portfolio
NextPortfolio ==
    \/ GetAllDishes /\ Forget
    \/ GetDishById /\ Forget
    \/ CreateDish /\ Forget
    \/ UpdateDish /\ Forget
    \/ DeleteDish /\ Forget
    \/ GetCategories /\ Forget
    \/ GetStats /\ Forget

\* the portfolio and contact handlers never read the gateway: one credential
\* setting is enough for them
InitStores == Init /\ genAI = "client" /\ nodeEnv = "development"

SpecPortfolio == InitStores /\ [][NextPortfolio]_vars

\* dishes created and deleted in succession, each request remembering the one before it
NextCreateDelete ==
    \/ CreateDishFrom(CatalogBodies) /\ Remember
    \/ DeleteDish /\ Remember

SpecCreateDelete == InitStores /\ [][NextCreateDelete]_vars

\* dishes created, updated with bodies that carry an id, and deleted
NextIdentity ==
    \/ CreateDishFrom(ContextBodies) /\ Forget
    \/ UpdateDishFrom(IdentityUpdates) /\ Forget
    \/ DeleteDish /\ Forget
    \/ GetDishById /\ Forget

SpecIdentity == InitStores /\ [][NextIdentity]_vars

\* dishes created and updated with every kind of category
NextCategories ==
    \/ CreateDishFrom(CategoryBodies) /\ Forget
    \/ UpdateDishFrom(CategoryUpdates) /\ Forget
    \/ DeleteDish /\ Forget

SpecCategories == InitStores /\ [][NextCategories]_vars

\* time passes between requests
Tick ==
    /\ clock < MaxClock
    /\ clock' = clock + 1
    /\ UNCHANGED <<store, seq, env, nodeEnv, genAI, resp, pre, prev, inflight>>

\* dishes created and updated as time passes, with bodies that carry timestamps
NextTimestamps ==
    \/ Tick
    \/ CreateDishFrom({BaseDish}) /\ Forget
    \/ UpdateDishFrom(TimestampUpdates) /\ Forget

SpecTimestamps == InitStores /\ [][NextTimestamps]_vars

NextContactId == Uuid(seq[ContactTable] + 1)

SubmitContactFrom(bodies) ==
    \E b \in bodies, fail \in WriteFaults :
        /\ seq[ContactTable] < MaxContacts
        /\ Handle("submitContact", Request(Undef, Undef, b),
                  SubmitContactH(store, b, NextContactId, fail, clock))

SubmitContact == SubmitContactFrom(ContactBodies)

GetAllMessages ==
    \E q \in MessageQueries, fail \in BOOLEAN :
        Handle("getAllMessages", Request(Undef, q, Undef), GetAllMessagesH(store, q, fail))

GetMessageById ==
    \E id \in ContactIds, fail \in BOOLEAN :
        Handle("getMessageById", Request(id, Undef, Undef), GetMessageByIdH(store, id, fail))

UpdateMessageStatus ==
    \E id \in ContactIds, status \in StatusInputs, fail \in WriteFaults :
        Handle("updateMessageStatus", Request(id, Undef, [status |-> status]),
               UpdateMessageStatusH(store, id, status, fail, clock))

DeleteMessage ==
    \E id \in ContactIds, fail \in WriteFaults :
        Handle("deleteMessage", Request(id, Undef, Undef), DeleteMessageH(store, id, fail))

GetContactStats ==
    \E f1 \in BOOLEAN, f2 \in BOOLEAN, f3 \in BOOLEAN :
        Handle("getContactStats", Request(Undef, Undef, Undef),
               GetContactStatsH(store, f1, f2, f3, clock))

GetRecentMessages ==
    \E q \in RecentQueries, fail \in BOOLEAN :
        Handle("getRecentMessages", Request(Undef, q, Undef),
               GetRecentMessagesH(store, q, fail, clock))

SearchMessages ==
    \E q \in SearchQueries, fail \in BOOLEAN :
        Handle("searchMessages", Request(Undef, q, Undef), SearchMessagesH(store, q, fail))

\* the routes mounted at /api/contact
NextContact ==
    \/ SubmitContact /\ Forget
    \/ GetAllMessages /\ Forget
    \/ GetMessageById /\ Forget
    \/ UpdateMessageStatus /\ Forget
    \/ DeleteMessage /\ Forget

SpecContact == InitStores /\ [][NextContact]_vars

\* No handler touches both tables, so the requests that write are explored with
\* one table in use in a run.
DishesOnly == seq[ContactTable] = 0
ContactsOnly == seq[DishTable] = 0

\* the creating and the updating requests of both tables
NextUpdates ==
    \/ DishesOnly /\ CreateDish /\ Forget
    \/ DishesOnly /\ UpdateDish /\ Forget
    \/ ContactsOnly /\ SubmitContact /\ Forget
    \/ ContactsOnly /\ UpdateMessageStatus /\ Forget

SpecUpdates == InitStores /\ [][NextUpdates]_vars

\* a helper called directly: what it returned, or that it threw, is kept as the
\* body, with status 0 for "no HTTP response"
HelperCall(op, args, outcome, r) ==
    Handle(op, Request(Undef, Undef, args),
           Reply(0, [thrown |-> Escapes(outcome), data |-> r.data, error |-> r.error],
                 r.calls, r.store))

CallSelect ==
    \E filters \in HelperFilters, outcome \in ClientOutcomes :
        HelperCall("select", filters, outcome,
                   DbSelect(store, DishTable, filters, ReadFault(outcome)) @@ [store |-> store])

CallInsert ==
    \E rec \in HelperRecords, outcome \in ClientOutcomes :
        /\ seq[DishTable] < MaxDishes
        /\ HelperCall("insert", rec, outcome,
                      DbInsert(store, DishTable, rec, NextDishId, WriteFault(outcome)))

CallUpdate ==
    \E id \in DishIds, data \in HelperUpdates, outcome \in ClientOutcomes :
        HelperCall("update", [id |-> id, data |-> data], outcome,
                   DbUpdate(store, DishTable, id, data, WriteFault(outcome), clock))

CallDelete ==
    \E id \in DishIds, outcome \in ClientOutcomes :
        HelperCall("delete", [id |-> id], outcome,
                   DbDelete(store, DishTable, id, WriteFault(outcome)) @@ [data |-> Undef])

\* the four helpers called on the dishes table
NextHelpers ==
    \/ CallSelect /\ Forget
    \/ CallInsert /\ Forget
    \/ CallUpdate /\ Forget
    \/ CallDelete /\ Forget

SpecHelpers == InitStores /\ [][NextHelpers]_vars

\* a request handled with the statuses its handler sent kept beside the body
Respond(op, req, r, steps) ==
    Handle(op, req, [r EXCEPT !.body = r.body @@ [sent |-> Run(steps, <<>>)]])

UpdateDishSent ==
    \E id \in DishIds, b \in DishUpdates, fail \in WriteFaults :
        Respond("updateDish", Request(id, Undef, b),
                UpdateDishH(store, id, b, fail, clock), UpdateDishSteps(store, id, b, fail, clock))

SubmitContactSent ==
    \E b \in {c \in ContactBodies : c.message = BaseContact.message /\ c.phone = Undef},
       fail \in WriteFaults :
        /\ seq[ContactTable] < MaxContacts
        /\ Respond("submitContact", Request(Undef, Undef, b),
                   SubmitContactH(store, b, NextContactId, fail, clock),
                   SubmitContactSteps(store, b, NextContactId, fail, clock))

ChatSent ==
    \E b \in ChatBodies, fail \in BOOLEAN, outcome \in GatewayOutcomes :
        Respond("chat", Request(Undef, Undef, b),
                ChatH(store, genAI, b, fail, outcome), ChatSteps(store, genAI, b, fail, outcome))

\* the three handlers with their responses counted
NextResponses ==
    \/ DishesOnly /\ CreateDishFrom(ContextBodies) /\ Forget
    \/ DishesOnly /\ UpdateDishSent /\ Forget
    \/ ContactsOnly /\ SubmitContactSent /\ Forget
    \/ ChatSent /\ Forget

InitGateways == Init /\ nodeEnv = "development"

SpecResponses == InitGateways /\ [][NextResponses]_vars

\* getStats reaches Promise.all: its three reads are issued and it is suspended
StatsStart ==
    /\ ~inflight.active
    /\ inflight' = [Idle EXCEPT !.active = TRUE, !.pending = {"all", "featured", "available"}]
    /\ UNCHANGED <<store, seq, env, nodeEnv, clock, genAI, resp, pre, prev>>

\* the result of one of the reads against the store as it is when the store
\* answers it
StatsResult(k, st) ==
    CASE k = "all" -> DishGetAll(st, Null, FALSE)
      [] k = "featured" -> DishGetFeatured(st, FALSE)
      [] k = "available" -> DishGetAvailable(st, FALSE)

\* the store answers one of the pending reads, in no fixed order
StatsRead ==
    \E k \in inflight.pending :
        /\ inflight' = [inflight EXCEPT ![k] = StatsResult(k, store), !.pending = @ \ {k}]
        /\ UNCHANGED <<store, seq, env, nodeEnv, clock, genAI, resp, pre, prev>>

\* the three reads are answered: the handler resumes and sends its response
StatsFinish ==
    /\ inflight.active
    /\ inflight.pending = {}
    /\ Handle("getStats", Request(Undef, Undef, Undef),
              StatsReply(inflight.all, inflight.featured, inflight.available, store))

\* getStats with requests of other clients handled while it is suspended; the
\* reads themselves do not fail here
NextStatsInterleaved ==
    \/ StatsStart
    \/ StatsRead
    \/ StatsFinish /\ Forget
    \/ CreateDishFrom(FeaturedBodies) /\ Forget
    \/ DeleteDish /\ Forget

SpecStatsInterleaved == InitStores /\ [][NextStatsInterleaved]_vars

\* contact submissions whose bodies carry fields the server assigns
NextSubmissions ==
    \/ SubmitContactFrom(ForgedContactBodies) /\ Forget
    \/ DeleteMessage /\ Forget

SpecSubmissions == InitStores /\ [][NextSubmissions]_vars

\* the handler h of the portfolio router run for a request
ServePortfolio(h, method, path) ==
    LET req(query, body) == RoutedRequest("portfolio", method, path, query, body)
        id == ParamId(path)
    IN  \/ h = "getAllDishes"
           /\ Handle(h, req(NoQuery, Undef), GetAllDishesH(store, NoQuery, FALSE))
        \/ h = "getStats"
           /\ Handle(h, req(Undef, Undef), GetStatsH(store, FALSE, FALSE, FALSE))
        \/ h = "getCategories"
           /\ Handle(h, req(Undef, Undef), GetCategoriesH(store))
        \/ h = "getDishById"
           /\ Handle(h, req(Undef, Undef), GetDishByIdH(store, id, FALSE))
        \/ h = "createDish"
           /\ seq[DishTable] < MaxDishes
           /\ Handle(h, req(Undef, BaseDish), CreateDishH(store, BaseDish, NextDishId, "none", clock))
        \/ h = "updateDish"
           /\ Handle(h, req(Undef, NoFields), UpdateDishH(store, id, NoFields, "none", clock))
        \/ h = "deleteDish"
           /\ Handle(h, req(Undef, Undef), DeleteDishH(store, id, "none"))
        \/ h = "none"
           /\ Handle("notFound", req(Undef, Undef),
                     NotFoundH(store, nodeEnv, method, <<"api", "portfolio">>))

\* the handler h of the contact router run for a request
ServeContact(h, method, path) ==
    LET req(query, body) == RoutedRequest("contact", method, path, query, body)
        id == ParamId(path)
        term == [q |-> Str(<<"n">>)]
        status == [status |-> Str(<<"completed">>)]
    IN  \/ h = "submitContact"
           /\ seq[ContactTable] < MaxContacts
           /\ Handle(h, req(Undef, BaseContact),
                     SubmitContactH(store, BaseContact, NextContactId, "none", clock))
        \/ h = "getAllMessages"
           /\ Handle(h, req(NoPaging, Undef), GetAllMessagesH(store, NoPaging, FALSE))
        \/ h = "getContactStats"
           /\ Handle(h, req(Undef, Undef), GetContactStatsH(store, FALSE, FALSE, FALSE, clock))
        \/ h = "getRecentMessages"
           /\ Handle(h, req([days |-> Undef], Undef),
                     GetRecentMessagesH(store, [days |-> Undef], FALSE, clock))
        \/ h = "searchMessages"
           /\ Handle(h, req(term, Undef), SearchMessagesH(store, term, FALSE))
        \/ h = "getMessageById"
           /\ Handle(h, req(Undef, Undef), GetMessageByIdH(store, id, FALSE))
        \/ h = "updateMessageStatus"
           /\ Handle(h, req(Undef, status),
                     UpdateMessageStatusH(store, id, status.status, "none", clock))
        \/ h = "deleteMessage"
           /\ Handle(h, req(Undef, Undef), DeleteMessageH(store, id, "none"))
        \/ h = "none"
           /\ Handle("notFound", req(Undef, Undef),
                     NotFoundH(store, nodeEnv, method, <<"api", "contact">>))

\* a request arrives at /api/portfolio: its router dispatches it
RoutePortfolio ==
    \E method \in RouteMethods, path \in RoutePaths :
        ServePortfolio(Dispatch(PortfolioRoutes, method, path), method, path)

\* a request arrives at /api/contact: its router dispatches it
RouteContact ==
    \E method \in RouteMethods, path \in RoutePaths :
        ServeContact(Dispatch(ContactRoutes, method, path), method, path)

\* requests dispatched by the two routers
NextRoutes ==
    \/ DishesOnly /\ RoutePortfolio /\ Forget
    \/ ContactsOnly /\ RouteContact /\ Forget

SpecRoutes == InitStores /\ [][NextRoutes]_vars

\* the two statistics handlers over stores of a few records
NextStats ==
    \/ DishesOnly /\ CreateDishFrom(CatalogBodies) /\ Forget
    \/ DishesOnly /\ GetStats /\ Forget
    \/ ContactsOnly /\ SubmitContactFrom({BaseContact}) /\ Forget
    \/ ContactsOnly /\ UpdateMessageStatus /\ Forget
    \/ ContactsOnly /\ GetContactStats /\ Forget

SpecStats == InitStores /\ [][NextStats]_vars

\* records of either table created, deleted and fetched by id
NextLookup ==
    \/ DishesOnly /\ CreateDishFrom({BaseDish}) /\ Forget
    \/ DishesOnly /\ DeleteDish /\ Forget
    \/ DishesOnly /\ GetDishById /\ Forget
    \/ ContactsOnly /\ SubmitContactFrom({BaseContact}) /\ Forget
    \/ ContactsOnly /\ DeleteMessage /\ Forget
    \/ ContactsOnly /\ GetMessageById /\ Forget

SpecLookup == InitStores /\ [][NextLookup]_vars

\* a method of the service called directly: what it returned or threw is kept as
\* the body, with status 0 for "no HTTP response"
ServiceCall(op, args, r) ==
    Handle(op, Request(Undef, Undef, args),
           Reply(0, [thrown |-> r.thrown, error |-> r.error, result |-> r.result],
                 r.calls, store))

CallGenerateResponse ==
    \E message \in QuestionArgs, portfolioContext \in ContextArgs, outcome \in GatewayOutcomes :
        ServiceCall("generateResponse",
                    [message |-> message, portfolioContext |-> portfolioContext],
                    GenerateResponse(genAI, message, portfolioContext, outcome))

CallGenerateFoodRecommendation ==
    \E preferences \in QuestionArgs, dietaryRestrictions \in RestrictionArgs,
       outcome \in GatewayOutcomes :
        ServiceCall("generateFoodRecommendation",
                    [preferences |-> preferences, dietaryRestrictions |-> dietaryRestrictions],
                    GenerateFoodRecommendation(genAI, preferences, dietaryRestrictions, outcome))

CallGenerateCookingTip ==
    \E topic \in QuestionArgs, outcome \in GatewayOutcomes :
        ServiceCall("generateCookingTip", [topic |-> topic],
                    GenerateCookingTip(genAI, topic, outcome))

CallTestConnection ==
    \E outcome \in GatewayOutcomes :
        ServiceCall("testConnection", [none |-> TRUE], TestConnection(genAI, outcome))

Chat ==
    \E b \in ChatBodies, fail \in BOOLEAN, outcome \in GatewayOutcomes :
        Handle("chat", Request(Undef, Undef, b), ChatH(store, genAI, b, fail, outcome))

GetFoodRecommendation ==
    \E b \in RecommendBodies, outcome \in GatewayOutcomes :
        Handle("getFoodRecommendation", Request(Undef, Undef, b),
               GetFoodRecommendationH(store, genAI, b, outcome))

GetCookingTip ==
    \E b \in TipBodies, outcome \in GatewayOutcomes :
        Handle("getCookingTip", Request(Undef, Undef, b),
               GetCookingTipH(store, genAI, b, outcome))

TestAI ==
    \E outcome \in GatewayOutcomes :
        Handle("testAI", Request(Undef, Undef, Undef), TestAIH(store, genAI, outcome))

GetStatus == Handle("getStatus", Request(Undef, Undef, Undef), GetStatusH(store, genAI))

GetConversationHistory ==
    Handle("getConversationHistory", Request(Undef, Undef, Undef),
           GetConversationHistoryH(store))

\* the routes mounted at /api/chatbot, with the catalog changing under them
NextChatbot ==
    \/ Chat /\ Forget
    \/ GetFoodRecommendation /\ Forget
    \/ GetCookingTip /\ Forget
    \/ TestAI /\ Forget
    \/ GetStatus /\ Forget
    \/ GetConversationHistory /\ Forget
    \/ CreateDishFrom(ContextBodies) /\ Forget
    \/ DeleteDish /\ Forget

SpecChatbot == Init /\ [][NextChatbot]_vars

\* the gateway's methods, called directly and through the handlers that use them
NextGateway ==
    \/ CallGenerateResponse /\ Forget
    \/ CallGenerateFoodRecommendation /\ Forget
    \/ CallGenerateCookingTip /\ Forget
    \/ CallTestConnection /\ Forget
    \/ Chat /\ Forget
    \/ GetFoodRecommendation /\ Forget
    \/ GetCookingTip /\ Forget
    \/ TestAI /\ Forget

SpecGateway == Init /\ [][NextGateway]_vars

Health ==
    Handle("health", AppRequest("GET", <<"api", "health">>, Undef),
           HealthH(store, nodeEnv, clock))

ErrorMiddleware ==
    \E err \in MiddlewareErrors, path \in {<<"api", "contact">>, <<"api", "chatbot", "chat">>} :
        Handle("errorMiddleware", AppRequest("POST", path, err),
               ErrorMiddlewareH(store, nodeEnv, err))

NotFound ==
    \E method \in Methods, path \in UnmatchedPaths :
        Handle("notFound", AppRequest(method, path, Undef),
               NotFoundH(store, nodeEnv, method, path))

\* the application: its own handlers, and the chatbot and contact routes mounted on it
NextApp ==
    \/ Health /\ Forget
    \/ ErrorMiddleware /\ Forget
    \/ NotFound /\ Forget
    \/ Chat /\ Forget
    \/ TestAI /\ Forget
    \/ GetStatus /\ Forget
    \/ GetConversationHistory /\ Forget
    \/ SubmitContact /\ Forget
    \/ GetMessageById /\ Forget

SpecApp == Init /\ [][NextApp]_vars

---------------------------------------------------------------------------
(* Properties *)

Dishes == store[DishTable]
DishesBefore == pre[DishTable]

\* the number of rows of a table that satisfy P
CountRows(rows, P(_)) == Cardinality({i \in 1..Len(rows) : P(rows[i])})

HoldsId(rows, id) == \E i \in 1..Len(rows) : rows[i].id = id

\* C1: for every creation body with title, description and category, the record
\* DishModel.create hands to the store has is_available = true unless the body's
\* is_available is exactly false, and ingredients = [] when the body omits ingredients.
C1_CreateDefaults ==
    (/\ resp.op = "createDish"
     /\ Truthy(resp.req.body.title)
     /\ Truthy(resp.req.body.description)
     /\ Truthy(resp.req.body.category))
    => /\ Len(resp.calls) = 1
       /\ resp.calls[1].fn = "insert"
       /\ resp.calls[1].table = DishTable
       /\ (resp.req.body.is_available # Bool(FALSE)
             => resp.calls[1].arg.is_available = Bool(TRUE))
       /\ (resp.req.body.ingredients = Undef
             => resp.calls[1].arg.ingredients = Arr(<<>>))

\* a dish created from a body whose is_available is the string "false" (not the
\* boolean) and that omits ingredients is stored available, with no ingredients
C1_Witness ==
    /\ resp.op = "createDish"
    /\ resp.status = 201
    /\ resp.req.body.is_available = Str(<<"false">>)
    /\ resp.req.body.ingredients = Undef
    /\ resp.body.data.is_available = Bool(TRUE)
    /\ resp.body.data.ingredients = Arr(<<>>)
    /\ Dishes # DishesBefore

\* C4: DELETE /api/portfolio/:id issued twice in succession for one id, the store
\* failing neither time, answers 200 both times and the second leaves the store
\* as the first left it.
C4_DeleteIdempotent ==
    (/\ resp.op = "deleteDish"
     /\ prev.op = "deleteDish"
     /\ prev.id = resp.req.id
     /\ ~prev.failed
     /\ ~BackendFailed(resp))
    => /\ prev.status = 200
       /\ resp.status = 200
       /\ store = pre

\* the first delete removed a stored dish, the second found none
C4_Witness ==
    /\ resp.op = "deleteDish"
    /\ prev.op = "deleteDish"
    /\ prev.id = resp.req.id
    /\ prev.changed
    /\ prev.status = 200
    /\ resp.status = 200
    /\ ~HoldsId(DishesBefore, resp.req.id)
    /\ Dishes # <<>>

\* C5 as stated: every record answered to a GET /api/portfolio carrying
\* featured=true has is_featured = true.
C5_FeaturedOnly_AnyQuery ==
    (/\ resp.op = "getAllDishes"
     /\ resp.status = 200
     /\ resp.req.query.featured = Str(<<"true">>))
    => \A i \in 1..ArrLen(resp.body.data) : resp.body.data[2][i].is_featured = Bool(TRUE)

\* C5 amended: every record answered to a GET /api/portfolio carrying featured=true
\* and no (non-empty) search parameter has is_featured = true.
C5_FeaturedOnly ==
    (/\ resp.op = "getAllDishes"
     /\ resp.status = 200
     /\ resp.req.query.featured = Str(<<"true">>)
     /\ ~Truthy(resp.req.query.search))
    => \A i \in 1..ArrLen(resp.body.data) : resp.body.data[2][i].is_featured = Bool(TRUE)

\* a mixture is stored, and featured=true answers the featured dish alone
C5_Witness ==
    /\ resp.op = "getAllDishes"
    /\ resp.status = 200
    /\ resp.req.query.featured = Str(<<"true">>)
    /\ ~Truthy(resp.req.query.search)
    /\ Len(Dishes) = 2
    /\ ArrLen(resp.body.data) = 1
    /\ \E i \in 1..Len(Dishes) : Dishes[i].is_featured = Bool(FALSE) /\ Dishes[i].is_available = Bool(TRUE)

\* C7: with no store error, GET /api/portfolio/stats answers, for each of the five
\* categories, the number of stored dishes of that category, and the numbers of
\* featured, available and all stored dishes.
C7_StatsCounts ==
    (resp.op = "getStats" /\ ~BackendFailed(resp))
    => /\ resp.status = 200
       /\ \A c \in DishCategoryEnum :
            resp.body.data.categories[c] = CountRows(Dishes, LAMBDA r : r.category = Str(<<c>>))
       /\ DOMAIN resp.body.data.categories = DishCategoryEnum
       /\ resp.body.data.featured_dishes = CountRows(Dishes, LAMBDA r : r.is_featured = Bool(TRUE))
       /\ resp.body.data.available_dishes = CountRows(Dishes, LAMBDA r : r.is_available = Bool(TRUE))
       /\ resp.body.data.total_dishes = Len(Dishes)

\* two dishes of different categories, one featured, one unavailable
C7_Witness ==
    /\ resp.op = "getStats"
    /\ ~BackendFailed(resp)
    /\ resp.body.data.total_dishes = 2
    /\ resp.body.data.categories["mains"] = 1
    /\ resp.body.data.categories["desserts"] = 1
    /\ resp.body.data.categories["drinks"] = 0
    /\ resp.body.data.featured_dishes = 1
    /\ resp.body.data.available_dishes = 1

Contacts == store[ContactTable]
ContactsBefore == pre[ContactTable]

\* the request is an update whose id no stored record has: PUT /api/portfolio/:id,
\* or PUT /api/contact/:id/status with a valid status
UpdateOfAbsentId ==
    \/ resp.op = "updateDish" /\ ~HoldsId(DishesBefore, resp.req.id)
    \/ /\ resp.op = "updateMessageStatus"
       /\ resp.req.body.status \in OneOf(ContactStatusEnum)
       /\ ~HoldsId(ContactsBefore, resp.req.id)

\* C2 as stated: an update whose id matches no stored record is answered 404 and
\* leaves the store as it was.
C2_AbsentId_Always404 == UpdateOfAbsentId => (resp.status = 404 /\ store = pre)

\* C2 amended: an update whose id matches no stored record leaves the store as it
\* was; it is answered 404 unless the store call fails, and 500 when it does.
C2_AbsentId_NotFound ==
    UpdateOfAbsentId
    => /\ store = pre
       /\ Len(resp.calls) = 1
       /\ resp.calls[1].fn = "update"
       /\ (~BackendFailed(resp) => resp.status = 404)
       /\ (BackendFailed(resp) => resp.status = 500)

\* a dish is stored, and an update with a field to set names an id no dish has
C2_Witness ==
    /\ resp.op = "updateDish"
    /\ ~HoldsId(DishesBefore, resp.req.id)
    /\ DishesBefore # <<>>
    /\ resp.req.body.is_featured = Bool(TRUE)
    /\ \E i \in 1..Len(DishesBefore) : DishesBefore[i].is_featured = Bool(FALSE)
    /\ resp.status = 404

Missing(v) == v \in {Undef, Null, Str(<<>>)}

\* the basic syntactic email pattern, said of the text: no whitespace, exactly one
\* @ that is not the first character, and after it a dot that neither follows the
\* @ directly nor ends the text
WellFormedEmail(s) ==
    /\ \A k \in 1..Len(s) : s[k] \notin Whitespace
    /\ Cardinality({k \in 1..Len(s) : s[k] = "@"}) = 1
    /\ LET at == CHOOSE k \in 1..Len(s) : s[k] = "@"
       IN  /\ at > 1
           /\ \E dot \in (at + 2)..(Len(s) - 1) : s[dot] = "."

\* C3: a contact submission whose name, email or message is missing or empty, or
\* whose email does not match the pattern, is answered 400 and no insert is issued.
C3_InvalidContactRejected ==
    (/\ resp.op = "submitContact"
     /\ \/ Missing(resp.req.body.name)
        \/ Missing(resp.req.body.email)
        \/ Missing(resp.req.body.message)
        \/ ~WellFormedEmail(resp.req.body.email[2]))
    => /\ resp.status = 400
       /\ resp.calls = <<>>
       /\ store = pre

\* a message is stored, and a submission whose email has no dot after the @ is refused
C3_Witness ==
    /\ resp.op = "submitContact"
    /\ resp.req.body.email = Str(<<"a", "@", "b">>)
    /\ resp.status = 400
    /\ Contacts # <<>>
    /\ Contacts = ContactsBefore

\* the limit and offset of the last GET /api/contact as parseInt reads them
PageLimit ==
    ParseInt(IF resp.req.query.limit = Undef THEN Num(DefaultLimit) ELSE resp.req.query.limit)
PageOffset ==
    ParseInt(IF resp.req.query.offset = Undef THEN Num(DefaultOffset) ELSE resp.req.query.offset)

\* the size of the filtered result set of the last GET /api/contact
PageTotal ==
    IF Missing(resp.req.query.status) THEN Len(Contacts)
    ELSE CountRows(Contacts, LAMBDA r : r.status = resp.req.query.status)

PaginationLaw ==
    /\ ArrLen(resp.body.data) = Min(PageLimit[2], Max(0, PageTotal - PageOffset[2]))
    /\ resp.body.pagination.has_more = (PageOffset[2] + PageLimit[2] < PageTotal)

\* C6 as stated: the pagination law for every integer limit and offset.
C6_Pagination_AnyInteger ==
    (/\ resp.op = "getAllMessages"
     /\ resp.status = 200
     /\ PageLimit # NaN
     /\ PageOffset # NaN)
    => PaginationLaw

\* C6 amended: the pagination law for every limit and offset that are integers >= 0.
C6_Pagination ==
    (/\ resp.op = "getAllMessages"
     /\ resp.status = 200
     /\ PageLimit # NaN
     /\ PageOffset # NaN
     /\ PageLimit[2] >= 0
     /\ PageOffset[2] >= 0)
    => PaginationLaw

\* two messages stored, limit=1 and no offset: one record and has_more
C6_Witness ==
    /\ resp.op = "getAllMessages"
    /\ resp.status = 200
    /\ resp.req.query.limit = Str(<<"1">>)
    /\ resp.req.query.offset = Undef
    /\ Len(Contacts) = 2
    /\ ArrLen(resp.body.data) = 1
    /\ resp.body.pagination.has_more

\* C10: PUT /api/contact/:id/status with a status outside the four (or none) is
\* answered 400, no update is issued and the store is left as it was.
C10_InvalidStatusRejected ==
    (/\ resp.op = "updateMessageStatus"
     /\ resp.req.body.status \notin OneOf(ContactStatusEnum))
    => /\ resp.status = 400
       /\ resp.calls = <<>>
       /\ store = pre

\* the message exists, the status is "bogus", and the stored status stays
C10_Witness ==
    /\ resp.op = "updateMessageStatus"
    /\ resp.req.body.status = Bogus
    /\ resp.status = 400
    /\ \E i \in 1..Len(Contacts) :
          Contacts[i].id = resp.req.id /\ Contacts[i].status = Str(<<"in_progress">>)

\* the calls of the last request that went to the AI gateway, and to the store
GatewayCalls == SelectSeq(resp.calls, LAMBDA c : c.table = Gateway)
StoreCalls == SelectSeq(resp.calls, LAMBDA c : c.table # Gateway)

\* a text with a character that is no whitespace
HasVisibleChar(v) == IsStr(v) /\ \E k \in 1..Len(v[2]) : v[2][k] \notin Whitespace

\* a text of whitespace only (at least one character)
WhitespaceOnly(v) == IsStr(v) /\ Len(v[2]) > 0 /\ \A k \in 1..Len(v[2]) : v[2][k] \in Whitespace

\* C8: POST /api/chatbot/chat with a missing, empty or whitespace-only message is
\* answered 400 {success: false, message: "Message is required"} whether or not the
\* gateway is available, and reads neither the store nor the gateway.
C8_BlankMessageRejected ==
    (/\ resp.op = "chat"
     /\ \/ Missing(resp.req.body.message)
        \/ WhitespaceOnly(resp.req.body.message))
    => /\ resp.status = 400
       /\ resp.body = [success |-> FALSE, message |-> "Message is required"]
       /\ StoreCalls = <<>>
       /\ GatewayCalls = <<>>
       /\ store = pre

\* the gateway is configured, an available dish is stored, and a message of
\* whitespace only is refused with no call made
C8_Witness ==
    /\ resp.op = "chat"
    /\ genAI = "client"
    /\ WhitespaceOnly(resp.req.body.message)
    /\ Len(resp.req.body.message[2]) = 2
    /\ resp.req.body.includeContext = Undef
    /\ \E i \in 1..Len(Dishes) : Dishes[i].is_available = Bool(TRUE)
    /\ resp.status = 400
    /\ resp.calls = <<>>

CredentialUnset == env = Undef

StatusDisconnected ==
    resp.op = "getStatus"
    => /\ resp.status = 200
       /\ resp.body.data.aiAvailable = FALSE
       /\ resp.body.data.apiStatus = "disconnected"

\* C9 as stated: with the gateway credential unset at start, every status request
\* answers aiAvailable = false and apiStatus = "disconnected", and every chat
\* request with a non-empty message answers 503.
C9_Unconfigured_AnyNonEmpty ==
    CredentialUnset
    => /\ StatusDisconnected
       /\ (/\ resp.op = "chat"
           /\ IsStr(resp.req.body.message)
           /\ Len(resp.req.body.message[2]) > 0)
          => resp.status = 503

\* C9 amended: with the gateway credential unset at start, every status request
\* answers aiAvailable = false and apiStatus = "disconnected", and every chat
\* request whose message has a character that is no whitespace answers 503.
C9_Unconfigured ==
    CredentialUnset
    => /\ StatusDisconnected
       /\ (resp.op = "chat" /\ HasVisibleChar(resp.req.body.message))
          => (resp.status = 503 /\ resp.calls = <<>>)

\* no credential, dishes created and a message asked: 503
C9_Witness ==
    /\ CredentialUnset
    /\ genAI = "null"
    /\ resp.op = "chat"
    /\ resp.req.body.message = Str(<<"h", "i">>)
    /\ resp.status = 503
    /\ Len(Dishes) = MaxDishes

\* C11: the gateway's availability is fixed at start: no request, whatever its
\* gateway calls answer, changes what isAvailable() returns.
C11_AvailabilityFixed == [][IsAvailable(genAI') = IsAvailable(genAI)]_vars

\* a chat whose downstream call failed, and the gateway is still available
C11_Witness ==
    /\ resp.op = "chat"
    /\ resp.status = 500
    /\ GatewayCalls # <<>>
    /\ ~GatewayCalls[1].ok
    /\ IsAvailable(genAI)
    /\ genAI = Constructor(env)

NotAvailableMessages ==
    {"Gemini AI service is not available. Please check your API key.",
     "Gemini AI service is not available."}

\* the last request reached the handler's availability test: its required text
\* has a character that is no whitespace (the connection test requires none)
ReachedGateway ==
    \/ resp.op = "chat" /\ HasVisibleChar(resp.req.body.message)
    \/ resp.op = "getFoodRecommendation" /\ HasVisibleChar(resp.req.body.preferences)
    \/ resp.op = "getCookingTip" /\ HasVisibleChar(resp.req.body.topic)
    \/ resp.op = "testAI"

Given(v) == IsStr(v) /\ Len(v[2]) > 0
Flagged(v) == v = Str(<<"true">>)

\* the one select of the last request filters on exactly this column and value
SelectsBy(col, v) ==
    /\ resp.calls[1].fn = "select"
    /\ DOMAIN resp.calls[1].arg = {col}
    /\ resp.calls[1].arg[col] = v

\* C13: GET /api/portfolio calls exactly one repository operation: search when
\* search is present, else getFeatured for featured=true, else getAvailable for
\* available=true, else getByCategory when category is present, else getAll.
C13_QueryPriority ==
    resp.op = "getAllDishes"
    => /\ Len(resp.calls) = 1
       /\ resp.calls[1].table = DishTable
       /\ LET q == resp.req.query
          IN  IF Given(q.search)
              THEN resp.calls[1].fn = "search" /\ resp.calls[1].arg = q.search
              ELSE IF Flagged(q.featured) THEN SelectsBy("is_featured", Bool(TRUE))
              ELSE IF Flagged(q.available) THEN SelectsBy("is_available", Bool(TRUE))
              ELSE IF Given(q.category) THEN SelectsBy("category", q.category)
              ELSE resp.calls[1].fn = "select" /\ DOMAIN resp.calls[1].arg = {}

\* all four parameters present, dishes stored: the search is what was called
C13_Witness ==
    /\ resp.op = "getAllDishes"
    /\ Given(resp.req.query.search)
    /\ Flagged(resp.req.query.featured)
    /\ Flagged(resp.req.query.available)
    /\ Given(resp.req.query.category)
    /\ Len(resp.calls) = 1
    /\ resp.calls[1].fn = "search"
    /\ resp.status = 200
    /\ Len(Dishes) = 2

\* the catalog context of the last chat was asked of the store, and the store failed
ContextFetchFailed ==
    /\ resp.op = "chat"
    /\ StoreCalls # <<>>
    /\ ~StoreCalls[1].ok

\* C14: when the context fetch of a chat fails, generateResponse is still called,
\* with no catalog context, and the answer follows that call: 200 with
\* contextIncluded = false when it succeeds, 500 when it fails.
C14_ContextFetchTolerated ==
    ContextFetchFailed
    => /\ Len(GatewayCalls) = 1
       /\ GatewayCalls[1].fn = "generateContent"
       /\ GatewayCalls[1].arg.menu = <<>>
       /\ GatewayCalls[1].ok => (resp.status = 200 /\ resp.body.data.contextIncluded = FALSE)
       /\ ~GatewayCalls[1].ok => resp.status = 500

\* an available dish is stored, the fetch failed, and the chat succeeded without context
C14_Witness ==
    /\ ContextFetchFailed
    /\ \E i \in 1..Len(Dishes) : Dishes[i].is_available = Bool(TRUE)
    /\ resp.status = 200
    /\ resp.body.data.contextIncluded = FALSE

\* C15: in a successful chat response contextIncluded is true exactly when the
\* prompt sent to the gateway held catalog context items.
C15_ContextIncludedExact ==
    (resp.op = "chat" /\ resp.status = 200)
    => (resp.body.data.contextIncluded <=> GatewayCalls[1].arg.menu # <<>>)

\* the last response was sent for a request under /api
UnderApi ==
    /\ resp.op # "none"
    /\ resp.op \in {"notFound", "errorMiddleware", "health"} => StartsWithApi(resp.req.path)

\* C16: every response under /api is an object with a boolean success, and every
\* error response has success = false and a message.
C16_SuccessEnvelope ==
    UnderApi
    => /\ "success" \in DOMAIN resp.body
       /\ resp.body.success \in BOOLEAN
       /\ resp.status >= 400 => (resp.body.success = FALSE /\ "message" \in DOMAIN resp.body)

\* the last request is a generate request whose downstream call failed
GenerateFailed ==
    /\ resp.op \in {"chat", "getFoodRecommendation", "getCookingTip"}
    /\ GatewayCalls # <<>>
    /\ ~GatewayCalls[1].ok

InvalidCredential == "Invalid Gemini API key. Please check your configuration."
RateLimited == "Rate limit exceeded. Please try again later."
GenericFailure == "Failed to generate response. Please try again."

\* the descriptions the substrings of a downstream message allow
Descriptions(words) ==
    (IF "API_KEY_INVALID" \in words THEN {InvalidCredential} ELSE {})
    \cup (IF "RATE_LIMIT_EXCEEDED" \in words THEN {RateLimited} ELSE {})
    \cup (IF words \cap {"API_KEY_INVALID", "RATE_LIMIT_EXCEEDED"} = {}
          THEN {GenericFailure} ELSE {})

Classified ==
    /\ resp.status = 500
    /\ resp.body.message \in Descriptions(MessageWords(GatewayCalls[1].answer))
    /\ Len(GatewayCalls) = 1

\* C17: the downstream failure of a generate call (chat, recommendation, cooking
\* tip) is answered 500 with the description of its kind (invalid credential, rate
\* limit exceeded, generic failure), after one downstream call.
C17_FailureClassified == GenerateFailed => Classified

Ids(rows) == {rows[i].id : i \in 1..Len(rows)}

\* C18: a dish keeps the identifier it received at creation: no request other
\* than a create brings an identifier into the store, and an update leaves every
\* dish's identifier as it was.
C18_IdentifierImmutable ==
    /\ resp.op # "createDish" => Ids(Dishes) \subseteq Ids(DishesBefore)
    /\ resp.op = "updateDish"
       => /\ Len(Dishes) = Len(DishesBefore)
          /\ \A i \in 1..Len(Dishes) : Dishes[i].id = DishesBefore[i].id

Categories ==
    {Str(<<"appetizers">>), Str(<<"mains">>), Str(<<"desserts">>), Str(<<"drinks">>),
     Str(<<"specials">>)}

\* C19: every stored dish's category is one of appetizers, mains, desserts,
\* drinks, specials, whatever bodies the create and update requests carried.
C19_CategoryInEnum == \A i \in 1..Len(Dishes) : Dishes[i].category \in Categories

\* a stored dish was asked to take the category "bogus" and was not given it
C19_Witness ==
    /\ resp.op = "updateDish"
    /\ resp.req.body.category = Bogus
    /\ HoldsId(DishesBefore, resp.req.id)
    /\ resp.status = 500
    /\ \E i \in 1..Len(Dishes) : Dishes[i].id = resp.req.id /\ Dishes[i].category = Desserts

\* C20: every stored dish has updated_at >= created_at, whatever fields the
\* update bodies carried.
C20_UpdatedNotBeforeCreated ==
    \A i \in 1..Len(Dishes) :
        /\ IsTime(Dishes[i].created_at)
        /\ IsTime(Dishes[i].updated_at)
        /\ Dishes[i].updated_at[2] >= Dishes[i].created_at[2]

Statuses ==
    {Str(<<"new">>), Str(<<"in_progress">>), Str(<<"completed">>), Str(<<"archived">>)}

\* C21: every stored contact message's status is one of new, in_progress,
\* completed, archived, whatever the submissions, status updates and deletes
\* carried.
C21_StatusInEnum == \A i \in 1..Len(Contacts) : Contacts[i].status \in Statuses

\* a stored message has left the status "new", and a later request asks for the
\* status "bogus"
C21_Witness ==
    /\ resp.op = "updateMessageStatus"
    /\ resp.req.body.status = Bogus
    /\ \E i \in 1..Len(Contacts) :
          Contacts[i].id = resp.req.id /\ Contacts[i].status = Str(<<"in_progress">>)

\* the columns a status update may write
StatusColumns == {"status", "updated_at"}

\* C22: a contact request other than a delete leaves every stored message's
\* name, email, phone, event_type, guests, preferred_date, message, id and
\* created_at as they were; only a status update changes a stored message at
\* all, and only the message whose id it names.
C22_OnlyStatusMutable ==
    resp.op # "deleteMessage"
    => /\ Len(Contacts) >= Len(ContactsBefore)
       /\ \A i \in 1..Len(ContactsBefore) :
             /\ \A c \in (DOMAIN ContactsBefore[i]) \ StatusColumns :
                   Contacts[i][c] = ContactsBefore[i][c]
             /\ (resp.op # "updateMessageStatus" \/ ContactsBefore[i].id # resp.req.id)
                => Contacts[i] = ContactsBefore[i]

\* a status update has changed the status of a stored message that carries a phone
C22_Witness ==
    /\ resp.op = "updateMessageStatus"
    /\ resp.status = 200
    /\ \E i \in 1..Len(ContactsBefore) :
          /\ ContactsBefore[i].id = resp.req.id
          /\ ContactsBefore[i].phone # Null
          /\ Contacts[i].status # ContactsBefore[i].status

\* the table a fetch by id reads
Fetched == IF resp.op = "getDishById" THEN Dishes ELSE Contacts

\* C23: GET /api/portfolio/:id and GET /api/contact/:id, when the store answers
\* without an error, answer 404 if no stored record has the id and otherwise 200
\* with the stored record whose id is the requested one.
C23_GetById ==
    (resp.op \in {"getDishById", "getMessageById"} /\ ~BackendFailed(resp))
    => IF HoldsId(Fetched, resp.req.id)
       THEN /\ resp.status = 200
            /\ resp.body.data.id = resp.req.id
            /\ \E i \in 1..Len(Fetched) : Fetched[i] = resp.body.data
       ELSE resp.status = 404

\* the dish fetched is the second of two stored dishes
C23_Witness ==
    /\ resp.op = "getDishById"
    /\ resp.status = 200
    /\ Len(Dishes) = 2
    /\ resp.req.id = Dishes[2].id
    /\ resp.body.data = Dishes[2]

\* C24: in getStats and getContactStats, a failure of any one of the three
\* repository calls is answered as a failure (success = false), never as a
\* success built from the results that remain.
C24_StatsFailureSurfaces ==
    (resp.op \in {"getStats", "getContactStats"} /\ BackendFailed(resp))
    => /\ resp.status # 200
       /\ ~resp.body.success

Helpers == {"select", "insert", "update", "delete"}

\* C25: select, insert, update and delete of the data access helper never throw
\* to their caller; a failure is returned as the error field with data null, a
\* success has error null, and select, insert and update return exactly one of
\* data and error non-null.
C25_HelpersNeverThrow ==
    resp.op \in Helpers
    => /\ ~resp.body.thrown
       /\ BackendFailed(resp) <=> resp.body.error # Null
       /\ resp.op # "delete" => (resp.body.data = Null <=> resp.body.error # Null)

\* the store client threw during an update of a stored dish
C25_Witness ==
    /\ resp.op = "update"
    /\ HoldsId(DishesBefore, resp.req.body.id)
    /\ BackendFailed(resp)
    /\ resp.body.data = Null
    /\ resp.body.error = StoreError("fetch failed")

C27_StatsWithinTotal ==
    resp.op = "getStats"
    => /\ resp.body.data.featured_dishes <= resp.body.data.total_dishes
       /\ resp.body.data.available_dishes <= resp.body.data.total_dishes

\* a status of the 2xx class
Success(status) == status \in 200..299

\* C28: a request answered with a status outside 2xx leaves the store as it was;
\* in particular a POST /api/contact or POST /api/portfolio whose insert was
\* applied is answered 201.
C28_FailureLeavesStore ==
    /\ (resp.op # "none" /\ ~Success(resp.status)) => store = pre
    /\ (resp.op \in {"submitContact", "createDish"} /\ store # pre) => resp.status = 201

\* the row the last request added to the contact table
Added == Contacts[Len(Contacts)]

\* C29: a message created through POST /api/contact is stored with status "new",
\* the id the store generated and the server's time as created_at and
\* updated_at, whatever status, id or timestamps the body carries; name, email,
\* phone and message are the body's.
C29_ServerAssigned ==
    (resp.op = "submitContact" /\ Len(Contacts) > Len(ContactsBefore))
    => /\ Added.status = Str(<<"new">>)
       /\ Added.id = Uuid(seq[ContactTable])
       /\ ~HoldsId(ContactsBefore, Added.id)
       /\ Added.created_at = Time(clock)
       /\ Added.updated_at = Time(clock)
       /\ Added.name = resp.req.body.name
       /\ Added.email = resp.req.body.email
       /\ Added.phone = Or(resp.req.body.phone, Null)
       /\ Added.message = resp.req.body.message

\* a second message is stored from a body that asks for the status "completed",
\* the id of the first message and a timestamp of its own
C29_Witness ==
    /\ resp.op = "submitContact"
    /\ resp.status = 201
    /\ resp.req.body.status = Str(<<"completed">>)
    /\ resp.req.body.id = Uuid(1)
    /\ resp.req.body.created_at = FutureTime
    /\ HoldsId(ContactsBefore, Uuid(1))
    /\ Len(Contacts) = Len(ContactsBefore) + 1

\* the last request was a GET of the one-segment path seg below the mount point
GetOf(mount, seg) ==
    /\ resp.op # "none"
    /\ resp.req.mount = mount
    /\ resp.req.method = "GET"
    /\ resp.req.path = <<seg>>

\* C30: GET /api/portfolio/stats and /categories are never dispatched to
\* getDishById, and GET /api/contact/stats, /recent and /search never to
\* getMessageById: each goes to the handler of its fixed-path route.
C30_FixedRoutesWin ==
    /\ GetOf("portfolio", <<"stats">>) => resp.op = "getStats"
    /\ GetOf("portfolio", <<"categories">>) => resp.op = "getCategories"
    /\ GetOf("contact", <<"stats">>) => resp.op = "getContactStats"
    /\ GetOf("contact", <<"recent">>) => resp.op = "getRecentMessages"
    /\ GetOf("contact", <<"search">>) => resp.op = "searchMessages"
    /\ resp.op = "getDishById" => resp.req.id \notin {Str(<<"stats">>), Str(<<"categories">>)}
    /\ resp.op = "getMessageById"
       => resp.req.id \notin {Str(<<"stats">>), Str(<<"recent">>), Str(<<"search">>)}

\* GET /api/portfolio/stats was answered by getStats with a dish stored, and the
\* /:id route would have matched the path
C30_Witness ==
    /\ GetOf("portfolio", <<"stats">>)
    /\ resp.op = "getStats"
    /\ resp.body.data.total_dishes = 1
    /\ Match(<<Param>>, resp.req.path)

=============================================================================
